---- MODULE Spec2Model ----
(***************************************************************************)
(* Model of the restart-coordination core of moltbot:                      *)
(*   - the active run registry of src/src/infra/agent-events.ts            *)
(*     (registerAgentRunContext, clearAgentRunContext, the stale-run       *)
(*     setTimeout, onAgentRunComplete, getActiveAgentRunCount/Ids);        *)
(*   - the deferred-restart decision of src/gateway/config-reload.ts, of   *)
(*     which the repository holds the excerpt src/unnamed/part_000:528-548;*)
(*   - the Coordinator state machine (Idle, PlanQueued, Applying) and its  *)
(*     completion callback, which the specification describes (4.4).       *)
(*                                                                         *)
(* Time is discrete.  One unit is MAX_RUN_DURATION_MS / MaxRunDuration.    *)
(* Date.now() itself is not kept: runStartTimes holds, for each registered *)
(* run, the time elapsed since the Date.now() stored at its registration,  *)
(* and every pending setTimeout holds the time left until it is due.       *)
(***************************************************************************)
EXTENDS Integers, Sequences, FiniteSets, TLC

\* ------------------------------------------------------------------ bounds

\* MAX_RUN_DURATION_MS, in time units of the model.
MaxRunDuration == 2
\* Pending stale-run timers kept at once (the code never cancels a timer, so
\* their number is unbounded; registration of a new run is cut off here).
MaxTimers == 2
\* Restart requests recorded by the Lifecycle Bridge before evaluate stops
\* accepting restart-required plans.
MaxRestartRequests == 2

\* Events emitted on the bus before emitAgentEvent stops being called.
MaxEvents == 4

\* ------------------------------------------------------------------ inputs

EmptyId == ""
RunIds == {"a", "b"}
AllIds == RunIds \cup {EmptyId}

Undefined == "undefined"

\* AgentRunContext values passed to registerAgentRunContext.
EmptyContext == [sessionKey |-> Undefined, verboseLevel |-> Undefined, isHeartbeat |-> Undefined]
ContextInputs == { EmptyContext }
\* The contexts of the metadata specification: every combination of an absent,
\* an empty and two different session keys, an absent and two verbosity
\* levels, an absent, a false and a true heartbeat flag.
MetaContexts ==
    [sessionKey : {Undefined, "", "s1", "s2"},
     verboseLevel : {Undefined, "off", "full"},
     isHeartbeat : {Undefined, "false", "true"}]
MetaIds == {"a"}

\* Completion subscribers: the Coordinator's own callback and a test callback.
CoordCallback == "coord"
TestCallbacks == {"cb1"}

\* Reload plans handed to evaluate, each with the config snapshot it targets.
PlanKinds == {"no-op", "rejected", "hot-apply", "restart-required"}
Reasons == {"r1", "r2"}
NoPlan == [kind |-> "none", reason |-> "none"]
NoConfig == "none"
ConfigOf(reason) == IF reason = "r1" THEN "c1" ELSE "c2"
EvalInputs ==
    { [plan |-> [kind |-> k, reason |-> r], nextConfig |-> ConfigOf(r)] :
        k \in PlanKinds, r \in Reasons }

\* Config content: one field path that needs a restart and one that is
\* hot-appliable, each with two valid values and one the schema refuses.
FieldPaths == {"gateway", "hooks"}
PolicyTable == [gateway |-> "restart-required", hooks |-> "hot-apply"]
Contents == [gateway : {"g1", "g2", "bad"}, hooks : {"h1", "h2", "bad"}]
SchemaValid(content) == \A p \in FieldPaths : content[p] # "bad"
Code(v) == CASE v \in {"g1", "h1"} -> 0 [] v \in {"g2", "h2"} -> 1 [] OTHER -> 2
\* The content checksum: equal exactly for equal contents.
Checksum(content) == 3 * Code(content.gateway) + Code(content.hooks)
MTimes == {1, 2}
\* ConfigSnapshot: parsed content, content checksum, source modification time.
Snapshots == { [content |-> c, checksum |-> Checksum(c), mtime |-> t] :
                 c \in Contents, t \in MTimes }
InitialSnapshot ==
    [content |-> [gateway |-> "g1", hooks |-> "h1"],
     checksum |-> Checksum([gateway |-> "g1", hooks |-> "h1"]), mtime |-> 1]
NoSnapshot == [content |-> [gateway |-> "none", hooks |-> "none"], checksum |-> -1, mtime |-> 0]
\* The reason of a restart-required plan names the gateway setting it targets.
ReasonOf(next) == IF next.content.gateway = "g1" THEN "r1" ELSE "r2"

\* Detector: the quiescence window in time units, the read attempts of one
\* settle, the longest burst of raw events, the contents a writer saves, the
\* content of a file that does not exist, and the countdown that is not set.
Quiescence == 2
MaxReadAttempts == 3
MaxBurst == 3
WriterContents == { [gateway |-> "g1", hooks |-> "h1"], [gateway |-> "g2", hooks |-> "h1"] }
Missing == [gateway |-> "none", hooks |-> "none"]
NoTimer == -1
DetectorInit ==
    [timer |-> NoTimer, sinceRaw |-> Quiescence, burst |-> <<>>, settles |-> 0,
     attempts |-> 0, failing |-> 0, surfaced |-> {}]
ResourceInit == [orig |-> InitialSnapshot.content, tmp |-> Missing]

\* Config write path: the minimum interval between two writes in time units
\* (5000 ms in the write path) and the options of a write request.
WriteRateLimit == 3
WriteOpts == [urgent : BOOLEAN, forceWrite : BOOLEAN]
NoOpts == [urgent |-> FALSE, forceWrite |-> FALSE]
\* A top-level property of a config passed to writeConfigFile: a primitive
\* value, or a section, an object with one property `key` of value `val`.
Primitive(v) == [obj |-> FALSE, key |-> "", val |-> v]
Section(k, v) == [obj |-> TRUE, key |-> k, val |-> v]
\* The configs written: two that differ inside the gateway section, and the
\* first of them with primitive values in place of the sections.
IoConfigs ==
    { [gateway |-> Section("mode", "g1"), hooks |-> Section("token", "h1")],
      [gateway |-> Section("mode", "g2"), hooks |-> Section("token", "h1")],
      [gateway |-> Primitive("g1"), hooks |-> Primitive("h1")] }
NoIoConfig == [gateway |-> Primitive("none"), hooks |-> Primitive("none")]
\* lastConfigChecksum = null, and pendingWrite = null.
NoChecksum == [gateway |-> Primitive("null"), hooks |-> Primitive("null")]
NoPending == [config |-> NoIoConfig, opts |-> NoOpts, left |-> -1]
\* The two listings that change writeConfigFile do not say which of the two
\* checks comes first in the function that has both.
WriteOrders == {"rateLimitFirst", "checksumFirst"}
ConfigIoInit ==
    [file |-> [gateway |-> Section("mode", "g1"), hooks |-> Section("token", "h1")],
     lastConfigChecksum |-> NoChecksum, sinceWrite |-> WriteRateLimit,
     pendingWrite |-> NoPending, requested |-> NoIoConfig, order |-> "rateLimitFirst"]

\* Load test: the runs kept active at once (15 in the test), the runs started
\* (twice as many), their ids in the order they are started, and the context
\* they are registered with.
MaxConcurrent == 1
RunCount == 2 * MaxConcurrent
LoadIds == <<"a", "b">>
LoadContext == [sessionKey |-> "s1", verboseLevel |-> "on", isHeartbeat |-> FALSE]
LoadInit == [pc |-> "register", i |-> 0, activeCounts |-> <<>>]

\* Health monitor: the elements of the split log it inspects (50 in the
\* script), the lines the log can hold, the health checks in flight at once (setInterval
\* starts a check whether or not the previous one has ended), the levels of
\* the agent logger, and a check that is not running.
LogWindow == 3
MaxLogLines == 3
MaxChecks == 2
LogLevels == {"none", "warn", "debug"}
NoMatch == "no match"
EmptyLine == [kind |-> "empty", id |-> ""]
NotQueried == -1
IdleCheck == [pc |-> "idle", queried |-> FALSE, activeRuns |-> NotQueried]
MonitorInit == [checks |-> [c \in 1..MaxChecks |-> IdleCheck], lastCheck |-> 0]

\* Event bus: the listeners, the session keys an emitted event can carry
\* (absent, blank, set) and the context of a run registered with a session key.
EventListeners == {"l1"}
\* A listener that emits a derived event of the same run from inside its call
\* whenever it is handed a tool event, next to the listeners that only record.
Relay == "relay"
\* A completion subscriber, or listener, that throws whenever it is called.
Thrower == "thrower"
BusListeners == EventListeners \cup {Relay}
EventSessionKeys == {Undefined, " ", "s1"}
EventContexts == { [sessionKey |-> "s2", verboseLevel |-> Undefined, isHeartbeat |-> Undefined] }
NoEvent == [runId |-> EmptyId, seq |-> 0, sessionKey |-> Undefined]

NoStart == -1
\* lastOp: the operation, its run id, whether the id was registered when it was
\* called, the age of the record a stale timer removed, and for evaluate the
\* kind and reason of the plan and the reason of the plan it superseded.
\* For register it also holds the context passed and how the call ended, for
\* a reload the new snapshot, for a call of plan both snapshots, for an emit
\* the enriched event handed to the listeners.
NoOp == [op |-> "init", runId |-> EmptyId, existed |-> FALSE, age |-> NoStart,
         kind |-> "none", reason |-> "none", prev |-> "none",
         ctx |-> EmptyContext, result |-> "none", next |-> NoSnapshot,
         previous |-> NoSnapshot, event |-> NoEvent, opts |-> NoOpts]

\* ------------------------------------------------------------------- state

VARIABLES
    runContextById,          \* Map<string, AgentRunContext>, in insertion order
    runStartTimes,           \* per id: time elapsed since registration, or NoStart
    timers,                  \* pending setTimeout callbacks, oldest first
    runCompletionCallbacks,  \* Set<() => void>, in insertion order
    state,                   \* Coordinator state
    queuedReloadPlan,        \* QueuedRestart: the plan
    queuedReloadConfig,      \* QueuedRestart: the snapshot it targets
    restartRequests,         \* reasons of the restart requests the Bridge received
    callLog,                 \* callbacks invoked by the last operation, in order
    lastOp,                  \* the last operation and its arguments
    currentSnapshot,         \* the authoritative config snapshot
    bridgeFailures,          \* failed Lifecycle Bridge invocations, as logged
    bridgeReachable,         \* whether the restart-request channel is reachable
    sigusr1Listener,         \* whether a SIGUSR1 listener is installed on the process
    agentLogLevel,           \* what of the agent logger's output reaches today's log
    unsubscribed,            \* callbacks whose unsubscribe handle was called last
    seqByRun,                \* Map<string, number>: last seq per runId, 0 if absent
    listeners,               \* Set<(evt) => void>, in insertion order
    emitted,                 \* the events emitted so far: runId and seq, in order
    received,                \* per listener: the events it was called with, in order
    detector,                \* the Detector: countdown, current burst, last read
    resource,                \* the watched resource and the writer's temp file
    monitor,                 \* the health monitor: what its last check did
    gatewayLog,              \* the lines of today's gateway log, oldest first
    configIo,                \* the config write path: file, last checksum, pending write
    load                     \* the load test: its position and the counts it observed

registryVars == <<runContextById, runStartTimes, timers, runCompletionCallbacks>>
coordVars == <<state, queuedReloadPlan, queuedReloadConfig, restartRequests, bridgeFailures>>
\* The environment and the components next to the registry and the Coordinator.
envVars == <<bridgeReachable, sigusr1Listener, agentLogLevel>>
histVars == <<unsubscribed>>
busVars == <<seqByRun, listeners, emitted, received>>
detectorVars == <<detector, resource>>
monitorVars == <<monitor, gatewayLog>>
ioVars == <<configIo>>
loadVars == <<load>>
sideVars == <<monitorVars, ioVars, loadVars>>
auxVars == <<envVars, histVars, busVars, detectorVars, sideVars>>
\* The same without the log, for the steps of the registry that write to it.
quietSideVars == <<monitor, ioVars, loadVars>>
quietAuxVars == <<envVars, histVars, busVars, detectorVars, quietSideVars>>
vars == <<runContextById, runStartTimes, timers, runCompletionCallbacks,
          state, queuedReloadPlan, queuedReloadConfig, restartRequests,
          bridgeFailures, callLog, lastOp, currentSnapshot, auxVars>>

\* ----------------------------------------------------------- Map helpers

Range(s) == { s[i] : i \in 1..Len(s) }

\* Map.prototype.has
MapHas(m, k) == \E i \in 1..Len(m) : m[i].runId = k

\* Map.prototype.get (only used when the key is present)
MapGet(m, k) == (CHOOSE i \in 1..Len(m) : m[i].runId = k)

\* Map.prototype.delete: the other entries keep their order
MapDelete(m, k) == SelectSeq(m, LAMBDA e : e.runId # k)

\* A map that puts a new key first.
MapSetNew_prepend(m, k, ctx) == <<[runId |-> k, ctx |-> ctx]>> \o m

\* Map.prototype.set of a key that is absent: appended last
MapSetNew(m, k, ctx) == Append(m, [runId |-> k, ctx |-> ctx])

\* ---------------------------------------------------- Active Run Registry

\* agentLog.debug / agentLog.warn: today's log after a line of the given level.
\* A debug line is written when DEBUG includes "agent" (level "debug"), a warn
\* line always; both go to the console, which today's log captures unless the
\* level is "none".
agentLog(log, level, kind, runId) ==
    IF agentLogLevel = "debug" \/ (agentLogLevel = "warn" /\ level = "warn")
    THEN Append(log, [kind |-> kind, id |-> runId])
    ELSE log

\* getActiveAgentRunCount
getActiveAgentRunCount == Len(runContextById)

\* getActiveAgentRunIds
getActiveAgentRunIds == [i \in 1..Len(runContextById) |-> runContextById[i].runId]

\* JavaScript truthiness of an optional string field
Truthy(v) == v # Undefined /\ v # ""

\* MergeContext overwriting a field only when the stored one is still unset.
MergeContext_onlyFillUnset(existing, context) ==
    [sessionKey   |-> IF existing.sessionKey = Undefined THEN context.sessionKey
                      ELSE existing.sessionKey,
     verboseLevel |-> IF existing.verboseLevel = Undefined THEN context.verboseLevel
                      ELSE existing.verboseLevel,
     isHeartbeat  |-> IF existing.isHeartbeat = Undefined THEN context.isHeartbeat
                      ELSE existing.isHeartbeat]

\* The three conditional assignments that merge a context into an existing one.
MergeContext(existing, context) ==
    [sessionKey   |-> IF Truthy(context.sessionKey) /\ existing.sessionKey # context.sessionKey
                      THEN context.sessionKey ELSE existing.sessionKey,
     verboseLevel |-> IF Truthy(context.verboseLevel) /\ existing.verboseLevel # context.verboseLevel
                      THEN context.verboseLevel ELSE existing.verboseLevel,
     isHeartbeat  |-> IF context.isHeartbeat # Undefined /\ existing.isHeartbeat # context.isHeartbeat
                      THEN context.isHeartbeat ELSE existing.isHeartbeat]

\* registerAgentRunContext inserting without looking for an existing record.
registerAgentRunContext_alwaysInsert(runId, context) ==
    IF runId = EmptyId
    THEN UNCHANGED <<runContextById, runStartTimes, timers, gatewayLog>>
    ELSE /\ runContextById' = MapSetNew(runContextById, runId, context)
         /\ runStartTimes' = [runStartTimes EXCEPT ![runId] = 0]
         /\ timers' = Append(timers, [runId |-> runId, left |-> MaxRunDuration])
         /\ gatewayLog' = agentLog(gatewayLog, "debug", "registered", runId)

\* registerAgentRunContext restarting the clock of a run that is re-registered.
registerAgentRunContext_resetTimer(runId, context) ==
    IF runId = EmptyId
    THEN UNCHANGED <<runContextById, runStartTimes, timers, gatewayLog>>
    ELSE /\ runContextById' =
               IF MapHas(runContextById, runId)
               THEN [runContextById EXCEPT ![MapGet(runContextById, runId)].ctx =
                        MergeContext(@, context)]
               ELSE MapSetNew(runContextById, runId, context)
         /\ runStartTimes' = [runStartTimes EXCEPT ![runId] = 0]
         /\ timers' = Append(SelectSeq(timers, LAMBDA t : t.runId # runId),
                             [runId |-> runId, left |-> MaxRunDuration])
         /\ gatewayLog' = IF MapHas(runContextById, runId) THEN gatewayLog
                          ELSE agentLog(gatewayLog, "debug", "registered", runId)

\* registerAgentRunContext(runId, context)
registerAgentRunContext(runId, context) ==
    IF runId = EmptyId
    THEN UNCHANGED <<runContextById, runStartTimes, timers, gatewayLog>>
    ELSE IF ~MapHas(runContextById, runId)
    THEN /\ runContextById' = MapSetNew(runContextById, runId, context)
         /\ runStartTimes' = [runStartTimes EXCEPT ![runId] = 0]
         /\ timers' = Append(timers, [runId |-> runId, left |-> MaxRunDuration])
         /\ gatewayLog' = agentLog(gatewayLog, "debug", "registered", runId)
    ELSE /\ runContextById' =
               [runContextById EXCEPT ![MapGet(runContextById, runId)].ctx =
                    MergeContext(@, context)]
         /\ UNCHANGED <<runStartTimes, timers, gatewayLog>>

\* resetAgentRunContextForTest(): runContextById.clear(), and nothing else.
resetAgentRunContextForTest == runContextById' = <<>>

\* ---------------------------------------------------- Restart Coordinator

\* The Lifecycle Bridge: authorizeGatewaySigusr1Restart(); process.emit("SIGUSR1")
\* The failure handling of a Bridge invocation that retries once before it
\* gives up.
bridgeFailed_retryOnce(reason) ==
    /\ bridgeFailures' = bridgeFailures \o <<"SupervisorUnreachable", "SupervisorUnreachable">>
    /\ UNCHANGED restartRequests

\* A Bridge invocation that failed: logged as SupervisorUnreachable, not retried.
bridgeFailed(reason) ==
    /\ bridgeFailures' = Append(bridgeFailures, "SupervisorUnreachable")
    /\ UNCHANGED restartRequests

\* authorizeGatewaySigusr1Restart(); process.emit("SIGUSR1"): the signal
\* reaches the listener that is installed, and nobody if there is none.
requestRestart(reason) ==
    restartRequests' = IF sigusr1Listener THEN Append(restartRequests, reason)
                       ELSE restartRequests

\* An invocation of the Lifecycle Bridge by the Coordinator (specification
\* 4.4): the restart request, or its failure when the channel is unreachable.
invokeBridge(reason) ==
    IF bridgeReachable
    THEN /\ requestRestart(reason)
         /\ UNCHANGED bridgeFailures
    ELSE bridgeFailed(reason)

\* Registry completion callback of the Coordinator (specification 4.4): called
\* with the registry as it is when the callback runs.
onRunCompleted(registry) ==
    IF state = "PlanQueued" /\ Len(registry) = 0
    THEN /\ state' = "Applying"
         /\ invokeBridge(queuedReloadPlan.reason)
         /\ queuedReloadPlan' = NoPlan
         /\ queuedReloadConfig' = NoConfig
    ELSE UNCHANGED coordVars

\* deferOrRestart deferring only when more than one run is active.
deferOrRestart_offByOne(plan, nextConfig) ==
    LET activeRunCount == getActiveAgentRunCount
    IN  IF activeRunCount > 1
        THEN /\ queuedReloadPlan' = plan
             /\ queuedReloadConfig' = nextConfig
             /\ UNCHANGED restartRequests
        ELSE /\ requestRestart(plan.reason)
             /\ UNCHANGED <<queuedReloadPlan, queuedReloadConfig>>

\* deferOrRestart deferring also when no run is active.
deferOrRestart_alwaysDefer(plan, nextConfig) ==
    /\ queuedReloadPlan' = plan
    /\ queuedReloadConfig' = nextConfig
    /\ UNCHANGED restartRequests

\* deferOrRestart keeping the plan that is already queued.
deferOrRestart_keepFirst(plan, nextConfig) ==
    LET activeRunCount == getActiveAgentRunCount
    IN  IF activeRunCount > 0
        THEN /\ queuedReloadPlan' = IF queuedReloadPlan = NoPlan THEN plan ELSE queuedReloadPlan
             /\ queuedReloadConfig' = IF queuedReloadPlan = NoPlan THEN nextConfig
                                      ELSE queuedReloadConfig
             /\ UNCHANGED restartRequests
        ELSE /\ requestRestart(plan.reason)
             /\ UNCHANGED <<queuedReloadPlan, queuedReloadConfig>>

\* deferOrRestart without the early return after queueing.
deferOrRestart_noReturn(plan, nextConfig) ==
    LET activeRunCount == getActiveAgentRunCount
    IN  /\ requestRestart(plan.reason)
        /\ IF activeRunCount > 0
           THEN /\ queuedReloadPlan' = plan
                /\ queuedReloadConfig' = nextConfig
           ELSE UNCHANGED <<queuedReloadPlan, queuedReloadConfig>>

\* The restart-required branch of the reload handler: defer while runs are
\* active, restart otherwise.
deferOrRestart(plan, nextConfig) ==
    LET activeRunCount == getActiveAgentRunCount
    IN  IF activeRunCount > 0
        THEN /\ queuedReloadPlan' = plan
             /\ queuedReloadConfig' = nextConfig
             /\ UNCHANGED restartRequests
        ELSE /\ requestRestart(plan.reason)
             /\ UNCHANGED <<queuedReloadPlan, queuedReloadConfig>>

\* The restart-required branch as the Coordinator runs it (specification
\* 4.4): the branch of the reload handler, unless the Bridge is to be invoked
\* and its channel is unreachable.
restartRequired(plan, nextConfig) ==
    IF getActiveAgentRunCount = 0 /\ ~bridgeReachable
    THEN /\ bridgeFailed(plan.reason)
         /\ UNCHANGED <<queuedReloadPlan, queuedReloadConfig>>
    ELSE /\ deferOrRestart(plan, nextConfig)
         /\ UNCHANGED bridgeFailures

\* evaluate(plan) of the Coordinator (specification 4.4).
\* evaluate whose hot-apply branch drops the queued restart and returns to Idle.
evaluate_hotClearsQueue(plan, nextConfig) ==
    CASE plan.kind \in {"no-op", "rejected"} ->
            /\ UNCHANGED coordVars
            /\ callLog' = <<>>
      [] plan.kind = "hot-apply" ->
            /\ state' = IF state = "PlanQueued" THEN "Idle" ELSE state
            /\ queuedReloadPlan' = NoPlan
            /\ queuedReloadConfig' = NoConfig
            /\ UNCHANGED <<restartRequests, bridgeFailures>>
            /\ callLog' = <<[cb |-> "hotApply", count |-> getActiveAgentRunCount,
                             present |-> FALSE]>>
      [] plan.kind = "restart-required" ->
            /\ restartRequired(plan, nextConfig)
            /\ state' = IF getActiveAgentRunCount = 0 THEN "Applying" ELSE "PlanQueued"
            /\ callLog' = <<>>

\* evaluate that lets a rejected plan through to the restart-required branch.
evaluate_rejectedRestarts(plan, nextConfig) ==
    CASE plan.kind = "no-op" ->
            /\ UNCHANGED coordVars
            /\ callLog' = <<>>
      [] plan.kind = "hot-apply" ->
            /\ UNCHANGED coordVars
            /\ callLog' = <<[cb |-> "hotApply", count |-> getActiveAgentRunCount,
                             present |-> FALSE]>>
      [] plan.kind \in {"restart-required", "rejected"} ->
            /\ restartRequired(plan, nextConfig)
            /\ state' = IF getActiveAgentRunCount = 0 THEN "Applying" ELSE "PlanQueued"
            /\ callLog' = <<>>

\* evaluate that hot-applies only while no run is registered.
evaluate_hotWaitsForRuns(plan, nextConfig) ==
    CASE plan.kind \in {"no-op", "rejected"} ->
            /\ UNCHANGED coordVars
            /\ callLog' = <<>>
      [] plan.kind = "hot-apply" ->
            /\ UNCHANGED coordVars
            /\ callLog' = IF getActiveAgentRunCount = 0
                          THEN <<[cb |-> "hotApply", count |-> getActiveAgentRunCount,
                                  present |-> FALSE]>>
                          ELSE <<>>
      [] plan.kind = "restart-required" ->
            /\ restartRequired(plan, nextConfig)
            /\ state' = IF getActiveAgentRunCount = 0 THEN "Applying" ELSE "PlanQueued"
            /\ callLog' = <<>>

evaluate(plan, nextConfig) ==
    CASE plan.kind \in {"no-op", "rejected"} ->
            /\ UNCHANGED coordVars
            /\ callLog' = <<>>
      [] plan.kind = "hot-apply" ->
            /\ UNCHANGED coordVars
            /\ callLog' = <<[cb |-> "hotApply", count |-> getActiveAgentRunCount,
                             present |-> FALSE]>>
      [] plan.kind = "restart-required" ->
            /\ restartRequired(plan, nextConfig)
            /\ state' = IF getActiveAgentRunCount = 0 THEN "Applying" ELSE "PlanQueued"
            /\ callLog' = <<>>

\* --------------------------------------------- clear and the stale timer

\* Whether a callback or listener throws when it is called.
Throws(cb) == cb = Thrower

\* The loop without the try/catch: it ends at the first callback that throws,
\* and the exception leaves the loop.
runCallbacks_noCatch(cbs) ==
    IF \E i \in 1..Len(cbs) : Throws(cbs[i])
    THEN [called |-> SubSeq(cbs, 1, CHOOSE i \in 1..Len(cbs) :
                                        /\ Throws(cbs[i])
                                        /\ \A j \in 1..(i - 1) : ~Throws(cbs[j])),
          threw |-> TRUE]
    ELSE [called |-> cbs, threw |-> FALSE]

\* for (const callback of callbacks) { try { callback() } catch { } }: the
\* callbacks called, in order, and whether an exception leaves the loop.
runCallbacks(cbs) == [called |-> cbs, threw |-> FALSE]

\* The loop over runCompletionCallbacks: every subscriber is called once, in
\* subscription order, and sees the registry as it is at that moment.
notifyRunCompletion(registry, runId) ==
    /\ callLog' = [i \in 1..Len(runCallbacks(runCompletionCallbacks).called) |->
                     [cb |-> runCallbacks(runCompletionCallbacks).called[i],
                      count |-> Len(registry),
                      present |-> MapHas(registry, runId)]]
    /\ IF CoordCallback \in Range(runCallbacks(runCompletionCallbacks).called)
       THEN onRunCompleted(registry)
       ELSE UNCHANGED coordVars

\* clearAgentRunContext with the callbacks run before the record is deleted.
clearAgentRunContext_notifyFirst(runId) ==
    LET existed == MapHas(runContextById, runId)
    IN  /\ runContextById' = MapDelete(runContextById, runId)
        /\ runStartTimes' = [runStartTimes EXCEPT ![runId] = NoStart]
        /\ gatewayLog' = IF existed THEN agentLog(gatewayLog, "debug", "cleared", runId)
                         ELSE gatewayLog
        /\ IF existed
           THEN notifyRunCompletion(runContextById, runId)
           ELSE /\ callLog' = <<>>
                /\ UNCHANGED coordVars

\* clearAgentRunContext without the loop over the callbacks.
clearAgentRunContext_noNotify(runId) ==
    /\ runContextById' = MapDelete(runContextById, runId)
    /\ runStartTimes' = [runStartTimes EXCEPT ![runId] = NoStart]
    /\ gatewayLog' = IF MapHas(runContextById, runId)
                     THEN agentLog(gatewayLog, "debug", "cleared", runId) ELSE gatewayLog
    /\ callLog' = <<>>
    /\ UNCHANGED coordVars

\* clearAgentRunContext without the test of `existed` around the loop.
clearAgentRunContext_alwaysNotify(runId) ==
    /\ runContextById' = MapDelete(runContextById, runId)
    /\ runStartTimes' = [runStartTimes EXCEPT ![runId] = NoStart]
    /\ gatewayLog' = IF MapHas(runContextById, runId)
                     THEN agentLog(gatewayLog, "debug", "cleared", runId) ELSE gatewayLog
    /\ notifyRunCompletion(runContextById', runId)

\* The body of clearAgentRunContext(runId), `log` being the log as the lines
\* written earlier in the same call have left it.
clearLogged(runId, log) ==
    LET existed == MapHas(runContextById, runId)
    IN  /\ runContextById' = MapDelete(runContextById, runId)
        /\ runStartTimes' = [runStartTimes EXCEPT ![runId] = NoStart]
        /\ IF existed
           THEN /\ gatewayLog' = agentLog(log, "debug", "cleared", runId)
                /\ notifyRunCompletion(runContextById', runId)
           ELSE /\ gatewayLog' = log
                /\ callLog' = <<>>
                /\ UNCHANGED coordVars

\* clearAgentRunContext(runId)
clearAgentRunContext(runId) == clearLogged(runId, gatewayLog)

\* The setTimeout callback only logging the stale run.
staleTimerCallback_noClear(runId) ==
    /\ UNCHANGED <<runContextById, runStartTimes, coordVars>>
    /\ gatewayLog' = IF MapHas(runContextById, runId)
                     THEN agentLog(gatewayLog, "warn", "stale", runId) ELSE gatewayLog
    /\ callLog' = <<>>

\* The callback given to setTimeout by registerAgentRunContext: the warning,
\* then clearAgentRunContext(runId).
staleTimerCallback(runId) ==
    IF MapHas(runContextById, runId)
    THEN clearLogged(runId, agentLog(gatewayLog, "warn", "stale", runId))
    ELSE /\ UNCHANGED <<runContextById, runStartTimes, coordVars, gatewayLog>>
         /\ callLog' = <<>>

\* ---------------------------------------------------------------- event bus

\* String.prototype.trim on the session keys of the model
Trim(v) == IF v = " " THEN "" ELSE v

\* The event as the listeners get it: the next seq of its runId, and the
\* session key of the event if it has text, else the one of the run's context.
Enriched(event) ==
    [runId |-> event.runId,
     seq |-> seqByRun[event.runId] + 1,
     sessionKey |-> IF event.sessionKey # Undefined /\ Trim(event.sessionKey) # ""
                    THEN event.sessionKey
                    ELSE IF MapHas(runContextById, event.runId)
                    THEN runContextById[MapGet(runContextById, event.runId)].ctx.sessionKey
                    ELSE Undefined]

\* emitAgentEvent numbering every event from one counter shared by all runs.
emitAgentEvent_sharedCounter(event) ==
    LET total == Len(emitted) + 1 IN
    /\ seqByRun' = [seqByRun EXCEPT ![event.runId] = total]
    /\ emitted' = Append(emitted, [runId |-> event.runId, seq |-> total])
    /\ callLog' = [i \in 1..Len(listeners) |->
                     [cb |-> listeners[i], count |-> getActiveAgentRunCount,
                      present |-> MapHas(runContextById, event.runId)]]

\* emitAgentEvent taking the seq of a run that is not registered from 1 again.
emitAgentEvent_registryCounter(event) ==
    LET next == IF MapHas(runContextById, event.runId)
                THEN seqByRun[event.runId] + 1 ELSE 1 IN
    /\ seqByRun' = [seqByRun EXCEPT ![event.runId] = next]
    /\ emitted' = Append(emitted, [runId |-> event.runId, seq |-> next])
    /\ callLog' = [i \in 1..Len(listeners) |->
                     [cb |-> listeners[i], count |-> getActiveAgentRunCount,
                      present |-> MapHas(runContextById, event.runId)]]

\* emitAgentEvent(event)
emitAgentEvent(event) ==
    /\ seqByRun' = [seqByRun EXCEPT ![event.runId] = Enriched(event).seq]
    /\ emitted' = Append(emitted, [runId |-> event.runId, seq |-> Enriched(event).seq])
    /\ callLog' = [i \in 1..Len(runCallbacks(listeners).called) |->
                     [cb |-> runCallbacks(listeners).called[i],
                      count |-> getActiveAgentRunCount,
                      present |-> MapHas(runContextById, event.runId)]]

\* onAgentEvent(listener)
onAgentEvent(listener) ==
    listeners' = IF listener \in Range(listeners) THEN listeners
                 ELSE Append(listeners, listener)

\* The handle returned by onAgentEvent
stopListening(listener) ==
    listeners' = SelectSeq(listeners, LAMBDA l : l # listener)

\* ----------------------------------------------------------------- actions

\* Room in the log for the lines a step can write (the log of the model
\* holds MaxLogLines lines).
LogRoom(n) == agentLogLevel = "none" \/ Len(gatewayLog) + n <= MaxLogLines

\* Whether the gateway has started: its Coordinator is subscribed.
GatewayStarted == CoordCallback \in Range(runCompletionCallbacks)

\* Invocations of the Lifecycle Bridge so far, delivered or failed.
BridgeInvocations == Len(restartRequests) + Len(bridgeFailures)

Op(op, runId) ==
    [NoOp EXCEPT !.op = op, !.runId = runId,
                 !.existed = MapHas(runContextById, runId),
                 !.age = IF op = "evict" THEN runStartTimes[runId] ELSE NoStart]

Init ==
    /\ runContextById = <<>>
    /\ runStartTimes = [id \in AllIds |-> NoStart]
    /\ timers = <<>>
    /\ runCompletionCallbacks = <<>>
    /\ state = "Idle"
    /\ queuedReloadPlan = NoPlan
    /\ queuedReloadConfig = NoConfig
    /\ restartRequests = <<>>
    /\ callLog = <<>>
    /\ lastOp = NoOp
    /\ currentSnapshot = InitialSnapshot
    /\ bridgeFailures = <<>>
    /\ bridgeReachable = TRUE
    /\ sigusr1Listener = FALSE
    /\ agentLogLevel = "none"
    /\ unsubscribed = {}
    /\ seqByRun = [id \in AllIds |-> 0]
    /\ listeners = <<>>
    /\ emitted = <<>>
    /\ received = [l \in BusListeners |-> <<>>]
    /\ detector = DetectorInit
    /\ resource = ResourceInit
    /\ monitor = MonitorInit
    /\ gatewayLog = <<>>
    /\ configIo = ConfigIoInit
    /\ load = LoadInit

\* registerAgentRunContext returns undefined on every path and throws on none.
registerAgentRunContextResult(runId, context) == "returned"

\* A call of registerAgentRunContext(runId, context).
RegisterCall(runId, context) ==
    /\ (runId # EmptyId /\ ~MapHas(runContextById, runId)) => Len(timers) < MaxTimers
    /\ LogRoom(1)
    /\ registerAgentRunContext(runId, context)
    /\ lastOp' = [Op("register", runId) EXCEPT
                     !.ctx = context,
                     !.result = registerAgentRunContextResult(runId, context)]
    /\ callLog' = <<>>
    /\ UNCHANGED <<runCompletionCallbacks, coordVars, currentSnapshot, quietAuxVars>>

\* A work originator registers a run.
Register ==
    \E runId \in AllIds, context \in ContextInputs : RegisterCall(runId, context)

\* A work originator registers a run, or registers it again, with metadata.
RegisterMeta ==
    \E runId \in MetaIds, context \in MetaContexts : RegisterCall(runId, context)

\* A work originator clears a run.
Clear ==
    \E runId \in AllIds :
        /\ LogRoom(1)
        /\ clearAgentRunContext(runId)
        /\ lastOp' = Op("clear", runId)
        /\ UNCHANGED <<timers, runCompletionCallbacks, currentSnapshot, quietAuxVars>>

\* The unit test empties the registry before a test case.
ResetForTest ==
    /\ resetAgentRunContextForTest
    /\ lastOp' = [NoOp EXCEPT !.op = "reset"]
    /\ callLog' = <<>>
    /\ UNCHANGED <<runStartTimes, timers, runCompletionCallbacks, coordVars,
                   currentSnapshot, auxVars>>

\* The oldest pending timer is due and its callback runs.
FireTimer ==
    /\ timers # <<>>
    /\ Head(timers).left = 0
    /\ LogRoom(2)
    /\ timers' = Tail(timers)
    /\ staleTimerCallback(Head(timers).runId)
    /\ lastOp' = Op(IF MapHas(runContextById, Head(timers).runId) THEN "evict" ELSE "timer",
                    Head(timers).runId)
    /\ UNCHANGED <<runCompletionCallbacks, currentSnapshot, quietAuxVars>>

\* One unit of time passes; a timer that is due runs before time moves on.
Tick ==
    /\ timers # <<>>
    /\ \A i \in 1..Len(timers) : timers[i].left > 0
    /\ timers' = [i \in 1..Len(timers) |-> [timers[i] EXCEPT !.left = @ - 1]]
    /\ runStartTimes' = [id \in AllIds |->
                            IF runStartTimes[id] = NoStart THEN NoStart
                            ELSE runStartTimes[id] + 1]
    /\ lastOp' = [NoOp EXCEPT !.op = "tick"]
    /\ callLog' = <<>>
    /\ UNCHANGED <<runContextById, runCompletionCallbacks, coordVars, currentSnapshot, auxVars>>

\* onAgentRunComplete(callback)
onAgentRunComplete(cb) ==
    runCompletionCallbacks' =
        IF cb \in Range(runCompletionCallbacks) THEN runCompletionCallbacks
        ELSE Append(runCompletionCallbacks, cb)

\* A handle that deletes nothing.
unsubscribe_noDelete(cb) == UNCHANGED runCompletionCallbacks

\* The handle returned by onAgentRunComplete
unsubscribe(cb) ==
    runCompletionCallbacks' = SelectSeq(runCompletionCallbacks, LAMBDA c : c # cb)

Subscribe ==
    \E cb \in TestCallbacks :
        /\ cb \notin Range(runCompletionCallbacks)
        /\ onAgentRunComplete(cb)
        /\ lastOp' = [NoOp EXCEPT !.op = "subscribe"]
        /\ callLog' = <<>>
        /\ UNCHANGED <<runContextById, runStartTimes, timers, coordVars, currentSnapshot, auxVars>>

Unsubscribe ==
    \E cb \in TestCallbacks :
        /\ cb \in Range(runCompletionCallbacks)
        /\ unsubscribe(cb)
        /\ lastOp' = [NoOp EXCEPT !.op = "unsubscribe"]
        /\ callLog' = <<>>
        /\ UNCHANGED <<runContextById, runStartTimes, timers, coordVars, currentSnapshot, auxVars>>

\* onAgentRunComplete(cb), keeping track of the handles called.
SubscribeTracked ==
    \E cb \in TestCallbacks :
        /\ cb \notin Range(runCompletionCallbacks)
        /\ onAgentRunComplete(cb)
        /\ unsubscribed' = unsubscribed \ {cb}
        /\ lastOp' = [NoOp EXCEPT !.op = "subscribe"]
        /\ callLog' = <<>>
        /\ UNCHANGED <<runContextById, runStartTimes, timers, coordVars, currentSnapshot,
                       envVars, sideVars, busVars, detectorVars>>

\* The handle of a callback that was subscribed is called, for the first time
\* or again.
UnsubscribeTracked ==
    \E cb \in TestCallbacks :
        /\ cb \in Range(runCompletionCallbacks) \cup unsubscribed
        /\ unsubscribe(cb)
        /\ unsubscribed' = unsubscribed \cup {cb}
        /\ lastOp' = [NoOp EXCEPT !.op = "unsubscribe"]
        /\ callLog' = <<>>
        /\ UNCHANGED <<runContextById, runStartTimes, timers, coordVars, currentSnapshot,
                       envVars, sideVars, busVars, detectorVars>>

\* A run emits an event.
Emit ==
    \E runId \in RunIds, sessionKey \in EventSessionKeys :
        LET event == [runId |-> runId, sessionKey |-> sessionKey] IN
        /\ Len(emitted) < MaxEvents
        /\ emitAgentEvent(event)
        /\ lastOp' = [Op("emit", runId) EXCEPT !.event = Enriched(event)]
        /\ UNCHANGED <<registryVars, coordVars, currentSnapshot, envVars, sideVars, histVars, listeners,
                       received, detectorVars>>

Listen ==
    \E listener \in EventListeners :
        /\ listener \notin Range(listeners)
        /\ onAgentEvent(listener)
        /\ lastOp' = [NoOp EXCEPT !.op = "listen"]
        /\ callLog' = <<>>
        /\ UNCHANGED <<registryVars, coordVars, currentSnapshot, envVars, sideVars, histVars,
                       seqByRun, emitted, received, detectorVars>>

StopListening ==
    \E listener \in EventListeners :
        /\ listener \in Range(listeners)
        /\ stopListening(listener)
        /\ lastOp' = [NoOp EXCEPT !.op = "stop"]
        /\ callLog' = <<>>
        /\ UNCHANGED <<registryVars, coordVars, currentSnapshot, envVars, sideVars, histVars,
                       seqByRun, emitted, received, detectorVars>>

\* A work originator registers a run with a session key.
RegisterWithKey ==
    \E runId \in RunIds, context \in EventContexts : RegisterCall(runId, context)

\* The gateway starts (run-loop.ts, server startup): the SIGUSR1 listener is
\* installed and the Coordinator subscribes to the registry.
StartGateway ==
    /\ ~GatewayStarted
    /\ sigusr1Listener' = TRUE
    /\ onAgentRunComplete(CoordCallback)
    /\ lastOp' = [NoOp EXCEPT !.op = "start"]
    /\ callLog' = <<>>
    /\ UNCHANGED <<runContextById, runStartTimes, timers, coordVars, currentSnapshot,
                   bridgeReachable, agentLogLevel, histVars, busVars, detectorVars,
                   sideVars>>

\* The Planner hands a plan to the Coordinator.
Evaluate ==
    \E in \in EvalInputs :
        /\ GatewayStarted
        /\ in.plan.kind = "restart-required" => BridgeInvocations < MaxRestartRequests
        /\ evaluate(in.plan, in.nextConfig)
        /\ lastOp' = [NoOp EXCEPT !.op = "evaluate", !.kind = in.plan.kind,
                                  !.reason = IF in.plan.kind = "restart-required"
                                             THEN in.plan.reason ELSE "none",
                                  !.prev = IF in.plan.kind = "restart-required"
                                           THEN queuedReloadPlan.reason ELSE "none"]
        /\ UNCHANGED <<registryVars, currentSnapshot, auxVars>>

\* ------------------------------------------------------ Reload Planner

ChangedPaths(previous, next) == { p \in FieldPaths : previous.content[p] # next.content[p] }

\* plan without the schema validation of the new snapshot.
plan_noValidation(previous, next) ==
    IF previous.checksum = next.checksum
    THEN [kind |-> "no-op", reason |-> "none"]
    ELSE IF \E p \in ChangedPaths(previous, next) : PolicyTable[p] = "restart-required"
    THEN [kind |-> "restart-required", reason |-> ReasonOf(next)]
    ELSE [kind |-> "hot-apply", reason |-> "none"]

\* plan that takes a changed modification time for a change of content.
plan_mtimeSensitive(previous, next) ==
    IF previous.checksum = next.checksum /\ previous.mtime = next.mtime
    THEN [kind |-> "no-op", reason |-> "none"]
    ELSE IF ~SchemaValid(next.content)
    THEN [kind |-> "rejected", reason |-> "none"]
    ELSE IF \E p \in ChangedPaths(previous, next) : PolicyTable[p] = "restart-required"
    THEN [kind |-> "restart-required", reason |-> ReasonOf(next)]
    ELSE [kind |-> "hot-apply", reason |-> "none"]

\* plan that hot-applies as soon as one changed path is hot-appliable.
plan_anyHotWins(previous, next) ==
    IF previous.checksum = next.checksum
    THEN [kind |-> "no-op", reason |-> "none"]
    ELSE IF ~SchemaValid(next.content)
    THEN [kind |-> "rejected", reason |-> "none"]
    ELSE IF \E p \in ChangedPaths(previous, next) : PolicyTable[p] = "hot-apply"
    THEN [kind |-> "hot-apply", reason |-> "none"]
    ELSE [kind |-> "restart-required", reason |-> ReasonOf(next)]

\* plan(previous, next): the classification of a new snapshot.
plan(previous, next) ==
    IF previous.checksum = next.checksum
    THEN [kind |-> "no-op", reason |-> "none"]
    ELSE IF ~SchemaValid(next.content)
    THEN [kind |-> "rejected", reason |-> "none"]
    ELSE IF \E p \in ChangedPaths(previous, next) : PolicyTable[p] = "restart-required"
    THEN [kind |-> "restart-required", reason |-> ReasonOf(next)]
    ELSE [kind |-> "hot-apply", reason |-> "none"]

\* A settled change: the new snapshot is planned against the authoritative
\* one, the plan is evaluated, and the new snapshot becomes the authoritative
\* one unless it was rejected.
Reload ==
    \E next \in Snapshots :
        LET p == plan(currentSnapshot, next) IN
        /\ GatewayStarted
        /\ p.kind = "restart-required" => BridgeInvocations < MaxRestartRequests
        /\ evaluate(p, ConfigOf(p.reason))
        /\ currentSnapshot' = IF p.kind = "rejected" THEN currentSnapshot ELSE next
        /\ lastOp' = [NoOp EXCEPT !.op = "reload", !.kind = p.kind, !.reason = p.reason,
                                  !.next = next]
        /\ UNCHANGED <<registryVars, auxVars>>

\* The restart-request channel becomes unreachable, or reachable again.
BridgeChange ==
    /\ bridgeReachable' = ~bridgeReachable
    /\ lastOp' = [NoOp EXCEPT !.op = "bridge"]
    /\ callLog' = <<>>
    /\ UNCHANGED <<registryVars, coordVars, currentSnapshot, sigusr1Listener,
                   agentLogLevel, histVars, busVars,
                   detectorVars, sideVars>>

\* A call of plan(previous, next) on any two snapshots.
PlanCall ==
    \E previous \in Snapshots, next \in Snapshots :
        LET p == plan(previous, next) IN
        /\ lastOp' = [NoOp EXCEPT !.op = "plan", !.kind = p.kind, !.reason = p.reason,
                                  !.previous = previous, !.next = next]
        /\ callLog' = <<>>
        /\ UNCHANGED <<registryVars, coordVars, currentSnapshot, auxVars>>

Next ==
    \/ StartGateway
    \/ Register
    \/ Clear
    \/ FireTimer
    \/ Tick
    \/ Subscribe
    \/ Unsubscribe
    \/ Evaluate

Spec == Init /\ [][Next]_vars

\* Register and clear calls with metadata, before any stale timer is due.
MetaNext ==
    \/ ResetForTest
    \/ RegisterMeta
    \/ Register
    \/ Clear

MetaSpec == Init /\ [][MetaNext]_vars

\* Settled config changes while runs are registered and cleared.
PlanNext ==
    \/ StartGateway
    \/ Reload
    \/ Register
    \/ Clear

PlanSpec == Init /\ [][PlanNext]_vars

\* The registry with its subscribers, the handles called being remembered.
SubNext ==
    \/ StartGateway
    \/ SubscribeTracked
    \/ UnsubscribeTracked
    \/ Register
    \/ Clear
    \/ FireTimer
    \/ Tick

SubSpec == Init /\ [][SubNext]_vars

\* The event bus next to the registry.
EventNext ==
    \/ Emit
    \/ Listen
    \/ StopListening
    \/ RegisterWithKey
    \/ Clear

EventSpec == Init /\ [][EventNext]_vars

\* Events emitted for runs that are registered, cleared, evicted as stale and
\* registered again.
SeqNext ==
    \/ Register
    \/ Clear
    \/ Tick
    \/ FireTimer
    \/ Emit

SeqSpec == Init /\ [][SeqNext]_vars

\* The Planner alone, called on every pair of snapshots.
PlannerSpec == Init /\ [][PlanCall]_vars

\* Plans evaluated and runs completing while the restart-request channel
\* comes and goes.
BridgeNext ==
    \/ StartGateway
    \/ BridgeChange
    \/ Evaluate
    \/ Register
    \/ Clear

BridgeSpec == Init /\ [][BridgeNext]_vars

\* Timers that are due fire and time passes; the work originators and the
\* Planner are under no obligation.
FairSpec == Spec /\ WF_vars(Tick) /\ WF_vars(FireTimer)

\* ------------------------------------------------- event bus, with delivery

\* The event a Relay listener emits while it handles evt: emitAgentEvent has
\* stored evt.seq in seqByRun before it calls the listeners.
Derived(evt) == [runId |-> evt.runId, seq |-> evt.seq + 1, stream |-> "derived"]
Relays(l, evt) == l = Relay /\ evt.stream = "tool"

\* The listener calls with every listener called with the event before any
\* nested emit is dispatched.
listenerCalls_queued(evt, i) ==
    [k \in 1..Len(listeners) |-> [listener |-> listeners[k], event |-> evt]]
    \o (IF \E k \in 1..Len(listeners) : Relays(listeners[k], evt)
        THEN [k \in 1..Len(listeners) |->
                 [listener |-> listeners[k], event |-> Derived(evt)]]
        ELSE <<>>)

\* for (const listener of listeners) listener(enriched), from the i-th
\* listener on: the calls made, in order, those of a nested emitAgentEvent
\* included at the place where the listener makes it.
RECURSIVE listenerCalls(_, _)
listenerCalls(evt, i) ==
    IF i > Len(listeners) THEN <<>>
    ELSE <<[listener |-> listeners[i], event |-> evt]>>
         \o (IF Relays(listeners[i], evt) THEN listenerCalls(Derived(evt), 1) ELSE <<>>)
         \o listenerCalls(evt, i + 1)

\* Whether the dispatch of evt contains a nested emit.
Nested(evt) == \E k \in 1..Len(listeners) : Relays(listeners[k], evt)

\* emitAgentEvent(event) for a tool event, with the calls recorded per listener.
emitTracked(runId) ==
    LET evt == [runId |-> runId, seq |-> seqByRun[runId] + 1, stream |-> "tool"]
        calls == listenerCalls(evt, 1)
    IN  /\ seqByRun' = [seqByRun EXCEPT ![runId] = IF Nested(evt) THEN evt.seq + 1
                                                   ELSE evt.seq]
        /\ emitted' = emitted \o <<[runId |-> runId, seq |-> evt.seq]>>
                      \o (IF Nested(evt) THEN <<[runId |-> runId, seq |-> evt.seq + 1]>>
                          ELSE <<>>)
        /\ received' = [l \in BusListeners |->
                          received[l] \o
                          [k \in 1..Len(SelectSeq(calls, LAMBDA c : c.listener = l)) |->
                              SelectSeq(calls, LAMBDA c : c.listener = l)[k].event]]
        /\ callLog' = [k \in 1..Len(calls) |->
                          [cb |-> calls[k].listener, count |-> getActiveAgentRunCount,
                           present |-> MapHas(runContextById, runId)]]

EmitTracked ==
    \E runId \in RunIds :
        /\ Len(emitted) + 2 <= MaxEvents
        /\ emitTracked(runId)
        /\ lastOp' = Op("emit", runId)
        /\ UNCHANGED <<registryVars, coordVars, currentSnapshot, envVars, sideVars, histVars, listeners,
                       detectorVars>>

ListenTracked ==
    \E listener \in BusListeners :
        /\ listener \notin Range(listeners)
        /\ onAgentEvent(listener)
        /\ lastOp' = [NoOp EXCEPT !.op = "listen"]
        /\ callLog' = <<>>
        /\ UNCHANGED <<registryVars, coordVars, currentSnapshot, envVars, sideVars, histVars,
                       seqByRun, emitted, received, detectorVars>>

StopListeningTracked ==
    \E listener \in BusListeners :
        /\ listener \in Range(listeners)
        /\ stopListening(listener)
        /\ lastOp' = [NoOp EXCEPT !.op = "stop"]
        /\ callLog' = <<>>
        /\ UNCHANGED <<registryVars, coordVars, currentSnapshot, envVars, sideVars, histVars,
                       seqByRun, emitted, received, detectorVars>>

BusNext ==
    \/ EmitTracked
    \/ ListenTracked
    \/ StopListeningTracked

BusSpec == Init /\ [][BusNext]_vars

\* ------------------------------------------------------------ health monitor

Max(x, y) == IF x >= y THEN x ELSE y

\* content.split('\n').slice(-50): every line of the log ends with a newline,
\* so split gives the lines and then the empty string that comes after the
\* last newline, and that empty element is one of the 50.
LastLines(lines) ==
    LET parts == Append(lines, EmptyLine)
    IN  IF Len(parts) <= LogWindow THEN parts
        ELSE SubSeq(parts, Len(parts) - LogWindow + 1, Len(parts))

\* The capture of ([a-f0-9-]+) right after "agent run registered: " or "agent
\* run cleared: ": the id when it consists of hex digits and dashes, no match
\* when its first character is none of them.
Capture(id) == IF id \in {"a", "b"} THEN id ELSE NoMatch

\* checkActiveAgentRuns, today's log being `lines`
checkActiveAgentRuns(lines) ==
    LET window == LastLines(lines)
        Matched(kind) == { Capture(window[i].id) :
                             i \in { j \in 1..Len(window) : /\ window[j].kind = kind
                                                            /\ Capture(window[j].id) # NoMatch } }
        registeredRuns == Matched("registered")
        clearedRuns == Matched("cleared")
    IN  Max(0, Cardinality(registeredRuns) - Cardinality(clearedRuns))

\* performHealthCheck(): the check as it starts, waiting for the port probe.
performHealthCheck == [IdleCheck EXCEPT !.pc = "port"]

\* The check after `await checkGatewayResponsive()`: restartGateway() spawns
\* killall when the port is not reachable, else the WebSocket probe starts.
afterPortProbe(check, portOpen) ==
    [check EXCEPT !.pc = IF portOpen THEN "ws" ELSE "killall"]

\* The check after `await checkWebSocketResponsive()`: restartGateway() spawns
\* killall when the probe failed, else checkActiveAgentRuns() reads today's
\* log as it is now.
afterWsProbe(check, wsHealthy, lines) ==
    IF wsHealthy
    THEN [pc |-> "inotify", queried |-> TRUE, activeRuns |-> checkActiveAgentRuns(lines)]
    ELSE [check EXCEPT !.pc = "killall"]

\* killall -9 moltbot: the gateway process ends, and with it what it holds in
\* memory; what the Bridge, the bus listeners and the log have received stays.
gatewayKilled ==
    /\ runContextById' = <<>>
    /\ runStartTimes' = [id \in AllIds |-> NoStart]
    /\ timers' = <<>>
    /\ runCompletionCallbacks' = <<>>
    /\ state' = "Idle"
    /\ queuedReloadPlan' = NoPlan
    /\ queuedReloadConfig' = NoConfig
    /\ sigusr1Listener' = FALSE
    /\ seqByRun' = [id \in AllIds |-> 0]
    /\ listeners' = <<>>

MonitorUnchanged ==
    UNCHANGED <<registryVars, coordVars, currentSnapshot, envVars, histVars, busVars,
                detectorVars, gatewayLog, ioVars, loadVars>>

MonitorStep(c, check, op, result) ==
    /\ monitor' = [checks |-> [monitor.checks EXCEPT ![c] = check], lastCheck |-> c]
    /\ lastOp' = [NoOp EXCEPT !.op = op, !.result = result]
    /\ callLog' = <<>>

\* startHealthMonitoring, or its setInterval, calls performHealthCheck().
StartCheck ==
    \E c \in 1..MaxChecks :
        /\ monitor.checks[c].pc = "idle"
        /\ \A d \in 1..(c - 1) : monitor.checks[d].pc # "idle"
        /\ MonitorStep(c, performHealthCheck, "checkStart", "none")
        /\ MonitorUnchanged

\* The port probe of a check resolves.
PortProbed ==
    \E c \in 1..MaxChecks, portOpen \in BOOLEAN :
        /\ monitor.checks[c].pc = "port"
        /\ MonitorStep(c, afterPortProbe(monitor.checks[c], portOpen), "portProbe",
                       IF portOpen THEN "open" ELSE "killall")
        /\ MonitorUnchanged

\* The WebSocket probe of a check resolves.
WsProbed ==
    \E c \in 1..MaxChecks, wsHealthy \in BOOLEAN :
        /\ monitor.checks[c].pc = "ws"
        /\ MonitorStep(c, afterWsProbe(monitor.checks[c], wsHealthy, gatewayLog), "wsProbe",
                       IF wsHealthy THEN "queried" ELSE "killall")
        /\ MonitorUnchanged

\* The killall a check has spawned runs and closes (killProc.on('close')); the
\* 2 s wait begins. The gateway process ends when killall finds it under the
\* name moltbot, else it lives on with its state.
KillallCloses ==
    \E c \in 1..MaxChecks, ended \in BOOLEAN :
        /\ monitor.checks[c].pc = "killall"
        /\ MonitorStep(c, [monitor.checks[c] EXCEPT !.pc = "wait"], "killall",
                       IF ended THEN "killed" ELSE "closed")
        /\ IF ended
           THEN /\ gatewayKilled
                /\ UNCHANGED <<restartRequests, bridgeFailures, currentSnapshot,
                               bridgeReachable, agentLogLevel, histVars, emitted, received,
                               detectorVars, gatewayLog, ioVars, loadVars>>
           ELSE MonitorUnchanged

\* killall cannot be spawned (killProc.on('error')): restartGateway resolves
\* at once and the check returns, with no wait and nothing killed.
KillallFails ==
    \E c \in 1..MaxChecks :
        /\ monitor.checks[c].pc = "killall"
        /\ MonitorStep(c, IdleCheck, "killallError", "ended")
        /\ MonitorUnchanged

\* A check ends: after the wait that follows killall, or after the inotify
\* read of a check that passed.
CheckEnds ==
    \E c \in 1..MaxChecks :
        /\ monitor.checks[c].pc \in {"wait", "inotify"}
        /\ MonitorStep(c, IdleCheck, "checkEnd",
                       IF monitor.checks[c].pc = "wait" THEN "restarted" ELSE "passed")
        /\ MonitorUnchanged

\* The gateway is started with a level for its agent logger.
ConfigureLog ==
    \E level \in LogLevels \ {"none"} :
        /\ agentLogLevel = "none"
        /\ timers = <<>>
        /\ agentLogLevel' = level
        /\ lastOp' = [NoOp EXCEPT !.op = "configureLog"]
        /\ callLog' = <<>>
        /\ UNCHANGED <<registryVars, coordVars, currentSnapshot, bridgeReachable,
                       sigusr1Listener, histVars, busVars, detectorVars, sideVars>>

\* The monitor next to a gateway whose runs come and go and that writes its
\* log.
MonitorNext ==
    \/ ConfigureLog
    \/ Register
    \/ Clear
    \/ Tick
    \/ FireTimer
    \/ StartCheck
    \/ PortProbed
    \/ WsProbed
    \/ KillallCloses
    \/ KillallFails
    \/ CheckEnds

MonitorSpec == Init /\ [][MonitorNext]_vars

\* --------------------------------------------------------- config write path

\* JSON.stringify(config, allow): the array lists the property names that are
\* kept, at every depth, so a property of a section is kept only when its
\* name is in the array too.
Stringify(config, allow) ==
    [k \in DOMAIN config \cap allow |->
        IF config[k].obj /\ config[k].key \notin allow
        THEN Section("", "")
        ELSE config[k]]

\* calculateConfigChecksum(config): the sha256 of
\* JSON.stringify(config, Object.keys(config).sort()), one digest per string.
calculateConfigChecksum(config) == Stringify(config, DOMAIN config)

\* The write itself, with the assignments that follow it.
written(config) ==
    [io |-> [configIo EXCEPT !.file = config,
                             !.lastConfigChecksum = calculateConfigChecksum(config),
                             !.sinceWrite = 0, !.pendingWrite = NoPending,
                             !.requested = config],
     result |-> "written"]

\* The request kept for later: the pending write is replaced.
queued(config, opts) ==
    [io |-> [configIo EXCEPT !.pendingWrite =
                                [config |-> config, opts |-> [opts EXCEPT !.urgent = TRUE],
                                 left |-> WriteRateLimit - configIo.sinceWrite],
                             !.requested = config],
     result |-> "queued"]

skipped(config) == [io |-> [configIo EXCEPT !.requested = config], result |-> "skipped"]

\* writeConfigFile(config, opts). A request inside the interval that is not
\* urgent replaces the pending write; a config with the checksum of the last
\* written one is skipped unless the write is forced; any other is written.
writeConfigFile(config, opts) ==
    LET limited == configIo.sinceWrite < WriteRateLimit /\ ~opts.urgent
        unchanged == /\ calculateConfigChecksum(config) = configIo.lastConfigChecksum
                     /\ ~opts.forceWrite
    IN  IF configIo.order = "rateLimitFirst"
        THEN IF limited THEN queued(config, opts)
             ELSE IF unchanged THEN skipped(config)
             ELSE written(config)
        ELSE IF unchanged THEN skipped(config)
             ELSE IF limited THEN queued(config, opts)
             ELSE written(config)

IoUnchanged ==
    UNCHANGED <<registryVars, coordVars, currentSnapshot, envVars, histVars, busVars,
                detectorVars, monitorVars, loadVars>>

\* The system asks for a config to be written.
WriteRequest ==
    \E config \in IoConfigs, opts \in WriteOpts :
        LET w == writeConfigFile(config, opts) IN
        /\ configIo' = w.io
        /\ lastOp' = [NoOp EXCEPT !.op = "writeConfig", !.result = w.result,
                                  !.opts = opts]
        /\ callLog' = <<>>
        /\ IoUnchanged

\* The timer of the pending write fires.
PendingWriteFires ==
    /\ configIo.pendingWrite.left = 0
    /\ LET p == configIo.pendingWrite
           w == writeConfigFile(p.config, p.opts)
       IN  /\ configIo' = [w.io EXCEPT !.pendingWrite = NoPending]
           /\ lastOp' = [NoOp EXCEPT !.op = "pendingWrite", !.result = w.result,
                                     !.opts = p.opts]
    /\ callLog' = <<>>
    /\ IoUnchanged

\* One unit of time passes; a pending write that is due fires first.
WriteTick ==
    /\ configIo.pendingWrite.left # 0
    /\ configIo.sinceWrite < WriteRateLimit
    /\ configIo' = [configIo EXCEPT
            !.sinceWrite = @ + 1,
            !.pendingWrite.left = IF @ > 0 THEN @ - 1 ELSE @]
    /\ lastOp' = [NoOp EXCEPT !.op = "wtick"]
    /\ callLog' = <<>>
    /\ IoUnchanged

\* The function is put together with the checksum comparison first.
Compose ==
    /\ configIo = ConfigIoInit
    /\ configIo' = [configIo EXCEPT !.order = "checksumFirst"]
    /\ lastOp' = [NoOp EXCEPT !.op = "compose"]
    /\ callLog' = <<>>
    /\ IoUnchanged

IoNext ==
    \/ Compose
    \/ WriteRequest
    \/ PendingWriteFires
    \/ WriteTick

IoSpec == Init /\ [][IoNext]_vars

\* ------------------------------------------------------------------ load test

LoadUnchanged ==
    UNCHANGED <<runCompletionCallbacks, currentSnapshot, envVars, histVars, busVars,
                detectorVars, monitor, ioVars>>

\* registerAgentRunContext(`high-concurrency-${i}`, ...) and the count pushed.
LoadRegister ==
    /\ load.pc = "register"
    /\ load.i < RunCount
    /\ registerAgentRunContext(LoadIds[load.i + 1], LoadContext)
    /\ load' = [pc |-> IF load.i >= MaxConcurrent THEN "clearOld"
                       ELSE IF load.i + 1 < RunCount THEN "register" ELSE "clearRemaining",
                i |-> IF load.i >= MaxConcurrent THEN load.i
                      ELSE IF load.i + 1 < RunCount THEN load.i + 1
                      ELSE RunCount - MaxConcurrent,
                activeCounts |-> Append(load.activeCounts, Len(runContextById'))]
    /\ lastOp' = [Op("register", LoadIds[load.i + 1]) EXCEPT !.ctx = LoadContext,
                                                             !.result = "returned"]
    /\ callLog' = <<>>
    /\ UNCHANGED coordVars
    /\ LoadUnchanged

\* if (i >= maxConcurrent) clearAgentRunContext(`high-concurrency-${i - maxConcurrent}`)
LoadClearOld ==
    /\ load.pc = "clearOld"
    /\ clearAgentRunContext(LoadIds[load.i - MaxConcurrent + 1])
    /\ load' = [pc |-> IF load.i + 1 < RunCount THEN "register" ELSE "clearRemaining",
                i |-> IF load.i + 1 < RunCount THEN load.i + 1
                      ELSE RunCount - MaxConcurrent,
                activeCounts |-> Append(load.activeCounts, Len(runContextById'))]
    /\ lastOp' = Op("clear", LoadIds[load.i - MaxConcurrent + 1])
    /\ UNCHANGED timers
    /\ LoadUnchanged

\* The loop that clears the remaining runs.
LoadClearRemaining ==
    /\ load.pc = "clearRemaining"
    /\ clearAgentRunContext(LoadIds[load.i + 1])
    /\ load' = [load EXCEPT !.pc = IF load.i + 1 < RunCount THEN "clearRemaining" ELSE "done",
                            !.i = load.i + 1]
    /\ lastOp' = Op("clear", LoadIds[load.i + 1])
    /\ UNCHANGED timers
    /\ LoadUnchanged

\* The load test, while time passes, subscribers come and go and config
\* changes are evaluated.
LoadNext ==
    \/ StartGateway
    \/ LoadRegister
    \/ LoadClearOld
    \/ LoadClearRemaining
    \/ Tick
    \/ Subscribe
    \/ Unsubscribe
    \/ Evaluate

LoadSpec == Init /\ [][LoadNext]_vars

\* ------------------------------------------------- callbacks that throw

\* What the caller of a function that ran a callback loop gets.
callResult(cbs) == IF runCallbacks(cbs).threw THEN "threw" ELSE "returned"

SubscribeThrower ==
    /\ Thrower \notin Range(runCompletionCallbacks)
    /\ onAgentRunComplete(Thrower)
    /\ lastOp' = [NoOp EXCEPT !.op = "subscribe"]
    /\ callLog' = <<>>
    /\ UNCHANGED <<runContextById, runStartTimes, timers, coordVars, currentSnapshot, auxVars>>

ListenThrower ==
    /\ Thrower \notin Range(listeners)
    /\ onAgentEvent(Thrower)
    /\ lastOp' = [NoOp EXCEPT !.op = "listen"]
    /\ callLog' = <<>>
    /\ UNCHANGED <<registryVars, coordVars, currentSnapshot, envVars, sideVars, histVars,
                   seqByRun, emitted, received, detectorVars>>

\* clearAgentRunContext(runId), with what its caller gets.
ClearObserved ==
    \E runId \in RunIds :
        /\ clearAgentRunContext(runId)
        /\ lastOp' = [Op("clear", runId) EXCEPT
                         !.result = IF MapHas(runContextById, runId)
                                    THEN callResult(runCompletionCallbacks)
                                    ELSE "returned"]
        /\ UNCHANGED <<timers, runCompletionCallbacks, currentSnapshot, quietAuxVars>>

\* emitAgentEvent(event), with what its caller gets.
EmitObserved ==
    \E runId \in MetaIds :
        LET event == [runId |-> runId, sessionKey |-> Undefined] IN
        /\ Len(emitted) < MaxEvents
        /\ emitAgentEvent(event)
        /\ lastOp' = [Op("emit", runId) EXCEPT !.event = Enriched(event),
                                                !.result = callResult(listeners)]
        /\ UNCHANGED <<registryVars, coordVars, currentSnapshot, envVars, sideVars, histVars,
                       listeners, received, detectorVars>>

ThrowNext ==
    \/ StartGateway
    \/ SubscribeThrower
    \/ Subscribe
    \/ ListenThrower
    \/ Listen
    \/ Register
    \/ ClearObserved
    \/ EmitObserved

ThrowSpec == Init /\ [][ThrowNext]_vars

\* ---------------------------------------------------------------- Detector

\* A raw event continues the current burst while the countdown it started is
\* pending, or while less than the quiescence window has passed since the
\* previous raw event.
SameBurst == detector.timer # NoTimer \/ detector.sinceRaw < Quiescence

onRawEvent_keepCountdown(kind) ==
    detector' = [detector EXCEPT
        !.timer = IF detector.timer = NoTimer THEN Quiescence ELSE detector.timer,
        !.sinceRaw = 0,
        !.burst = IF SameBurst THEN Append(@, kind) ELSE <<kind>>,
        !.settles = IF SameBurst THEN @ ELSE 0]

onRawEvent_shortCountdown(kind) ==
    detector' = [detector EXCEPT
        !.timer = Quiescence - 1,
        !.sinceRaw = 0,
        !.burst = IF SameBurst THEN Append(@, kind) ELSE <<kind>>,
        !.settles = IF SameBurst THEN @ ELSE 0]

\* A raw change notification: the quiescence countdown is restarted.
onRawEvent(kind) ==
    detector' = [detector EXCEPT
        !.timer = Quiescence,
        !.sinceRaw = 0,
        !.burst = IF SameBurst THEN Append(@, kind) ELSE <<kind>>,
        !.settles = IF SameBurst THEN @ ELSE 0]

readWithRetries_noRetry(failing) ==
    [ok |-> failing < 1, attempts |-> 1]

\* The read after quiescence, of which the first `failing` attempts fail
\* transiently: it is retried until an attempt succeeds or the budget is spent.
readWithRetries(failing) ==
    [ok |-> failing < MaxReadAttempts,
     attempts |-> IF failing < MaxReadAttempts THEN failing + 1 ELSE MaxReadAttempts]

\* The countdown completes: the resource is read and checksummed, and the
\* snapshot is emitted with the settle event, or TransientReadFailure surfaced.
onQuiescence(failing, mtime) ==
    LET r == readWithRetries(failing)
        snapshot == [content |-> resource.orig, checksum |-> Checksum(resource.orig),
                     mtime |-> mtime]
    IN  /\ detector' = [detector EXCEPT
                !.timer = NoTimer,
                !.attempts = r.attempts,
                !.failing = failing,
                !.settles = IF r.ok THEN @ + 1 ELSE @,
                !.surfaced = IF r.ok THEN @ ELSE @ \cup {"TransientReadFailure"}]
        /\ lastOp' = IF r.ok THEN [NoOp EXCEPT !.op = "settle", !.next = snapshot]
                     ELSE [NoOp EXCEPT !.op = "readFailed",
                                       !.result = "TransientReadFailure"]

\* The raw events a writer causes reach the Detector as they happen.
RawEvent(kind) ==
    /\ SameBurst => Len(detector.burst) < MaxBurst
    /\ onRawEvent(kind)
    /\ lastOp' = [NoOp EXCEPT !.op = "raw"]
    /\ callLog' = <<>>
    /\ UNCHANGED <<registryVars, coordVars, currentSnapshot, envVars, sideVars, histVars, busVars>>

\* The resource is rewritten in place.
WriteInPlace ==
    \E c \in WriterContents :
        /\ resource.orig # Missing
        /\ resource' = [resource EXCEPT !.orig = c]
        /\ RawEvent("change(orig)")

\* An atomic write: the temp file is created, the original unlinked (or not,
\* when the rename replaces it), and the temp file renamed to the original.
AddTmp ==
    \E c \in WriterContents :
        /\ resource.tmp = Missing
        /\ resource' = [resource EXCEPT !.tmp = c]
        /\ RawEvent("add(tmp)")

UnlinkOrig ==
    /\ resource.tmp # Missing
    /\ resource.orig # Missing
    /\ resource' = [resource EXCEPT !.orig = Missing]
    /\ RawEvent("unlink(orig)")

AddOrig ==
    /\ resource.tmp # Missing
    /\ resource' = [orig |-> resource.tmp, tmp |-> Missing]
    /\ RawEvent("add(orig)")

\* One unit of time passes; a countdown that is due completes first.
DetectorTick ==
    /\ detector.timer # 0
    /\ detector.timer # NoTimer \/ detector.sinceRaw < Quiescence
    /\ detector' = [detector EXCEPT
            !.timer = IF @ = NoTimer THEN @ ELSE @ - 1,
            !.sinceRaw = IF @ < Quiescence THEN @ + 1 ELSE @]
    /\ lastOp' = [NoOp EXCEPT !.op = "dtick"]
    /\ callLog' = <<>>
    /\ UNCHANGED <<registryVars, coordVars, currentSnapshot, envVars, sideVars, histVars, busVars,
                   resource>>

\* The countdown completes. The environment decides how many read attempts
\* fail; every attempt fails while the resource does not exist.
Quiesce ==
    \E failing \in 0..MaxReadAttempts, mtime \in MTimes :
        /\ detector.timer = 0
        /\ resource.orig = Missing => failing = MaxReadAttempts
        /\ onQuiescence(failing, mtime)
        /\ callLog' = <<>>
        /\ UNCHANGED <<registryVars, coordVars, currentSnapshot, envVars, sideVars, histVars,
                       busVars, resource>>

DetectorNext ==
    \/ WriteInPlace
    \/ AddTmp
    \/ UnlinkOrig
    \/ AddOrig
    \/ DetectorTick
    \/ Quiesce

DetectorSpec == Init /\ [][DetectorNext]_vars

TypeOK ==
    /\ \A i \in 1..Len(runContextById) : runContextById[i].runId \in RunIds
    /\ \A id \in AllIds : runStartTimes[id] \in {NoStart} \cup (0..MaxRunDuration)
    /\ Len(timers) <= MaxTimers
    /\ state \in {"Idle", "PlanQueued", "Applying"}
    /\ Len(restartRequests) <= MaxRestartRequests
    /\ agentLogLevel \in LogLevels
    /\ Len(gatewayLog) <= MaxLogLines
    /\ sigusr1Listener \in BOOLEAN
    /\ configIo.order \in WriteOrders
    /\ \A c \in 1..MaxChecks :
          monitor.checks[c].pc \in {"idle", "port", "ws", "killall", "wait", "inotify"}

\* ------------------------------------------------------------------ claims

Count == getActiveAgentRunCount
RegisteredIds == { runContextById[i].runId : i \in 1..Len(runContextById) }
RestartEvaluated == lastOp.op = "evaluate" /\ lastOp.kind = "restart-required"
Removed == lastOp.op \in {"clear", "evict"} /\ lastOp.existed

\* C1: a restart request reaches the Lifecycle Bridge only in a step of
\* evaluate, clear or stale eviction at whose decision the registry holds no
\* run; while a run is registered no request is issued.
C1_RestartOnlyAtZero ==
    [][ Len(restartRequests') > Len(restartRequests) =>
            /\ Count' = 0
            /\ lastOp'.op \in {"evaluate", "clear", "evict"}
            /\ lastOp'.op = "evaluate" => Count = 0 ]_vars

C1_Witness ==
    /\ lastOp.op = "evict"
    /\ state = "Applying"
    /\ restartRequests # <<>>
    /\ Count = 0

\* C2: a queued restart is eventually applied, whatever the work originators
\* do, provided due timers fire and time passes.
C2_NeverDeferredForever == (state = "PlanQueued") ~> (state = "Applying")

\* C3: with exactly one run registered and the Coordinator Idle, evaluate of a
\* restart-required plan queues it and leaves the Bridge uncalled; clearing
\* that run while it is still the only one calls the Bridge exactly once, with
\* the queued reason, and moves the Coordinator to Applying.
C3_DeferThenApply ==
    [][ /\ (RestartEvaluated' /\ state = "Idle" /\ Count = 1) =>
              /\ state' = "PlanQueued"
              /\ restartRequests' = restartRequests
              /\ queuedReloadPlan'.reason = lastOp'.reason
        /\ (lastOp'.op = "clear" /\ lastOp'.existed /\ state = "PlanQueued" /\ Count = 1) =>
              /\ state' = "Applying"
              /\ restartRequests' = Append(restartRequests, queuedReloadPlan.reason) ]_vars

C3_Witness ==
    /\ lastOp.op = "clear"
    /\ lastOp.existed
    /\ state = "Applying"
    /\ Len(restartRequests) = 1
    /\ Count = 0

\* C4: with a restart queued and two or more runs registered, a clear that
\* removes one of them leaves the Coordinator in PlanQueued, the queued plan in
\* place and the Bridge uncalled; the clear of the last run calls the Bridge
\* exactly once.
C4_LastClearApplies ==
    [][ (lastOp'.op = "clear" /\ lastOp'.existed /\ state = "PlanQueued") =>
            IF Count >= 2
            THEN /\ Count' = Count - 1
                 /\ state' = "PlanQueued"
                 /\ restartRequests' = restartRequests
                 /\ queuedReloadPlan' = queuedReloadPlan
            ELSE /\ Count' = 0
                 /\ state' = "Applying"
                 /\ Len(restartRequests') = Len(restartRequests) + 1 ]_vars

C4_Witness ==
    /\ lastOp.op = "clear"
    /\ lastOp.existed
    /\ state = "PlanQueued"
    /\ Count = 1
    /\ restartRequests = <<>>

\* C5: evaluate of a restart-required plan in Idle with no run registered
\* calls the Bridge exactly once in that step, moves the Coordinator to
\* Applying and queues nothing.
C5_ImmediateRestart ==
    [][ (RestartEvaluated' /\ state = "Idle" /\ Count = 0) =>
            /\ state' = "Applying"
            /\ restartRequests' = Append(restartRequests, lastOp'.reason)
            /\ queuedReloadPlan' = NoPlan
            /\ queuedReloadConfig' = NoConfig ]_vars

C5_Witness ==
    /\ RestartEvaluated
    /\ lastOp.prev = "none"
    /\ state = "Applying"
    /\ Len(restartRequests) = 1
    /\ Count = 0
    /\ queuedReloadPlan = NoPlan

\* C6: the queued restart is last-write-wins: a restart-required plan evaluated
\* while runs are active replaces whatever was queued, and the request issued
\* when the registry empties carries the reason of the plan queued last and
\* empties the queue.
C6_LastWriteWins ==
    [][ /\ (RestartEvaluated' /\ Count > 0) =>
              /\ queuedReloadPlan' = [kind |-> "restart-required", reason |-> lastOp'.reason]
              /\ queuedReloadConfig' = ConfigOf(lastOp'.reason)
        /\ (lastOp'.op \in {"clear", "evict"} /\ restartRequests' # restartRequests) =>
              /\ restartRequests' = Append(restartRequests, queuedReloadPlan.reason)
              /\ queuedReloadPlan' = NoPlan ]_vars

C6_Witness ==
    /\ RestartEvaluated
    /\ lastOp.prev = "r1"
    /\ queuedReloadPlan.reason = "r2"
    /\ state = "PlanQueued"

\* C7: no step issues two restart requests, a request leaves the Coordinator
\* in Applying with nothing queued (so one plan is never requested twice), and
\* a queued restart is never lost: while a plan is queued a run is registered
\* and the Coordinator is subscribed, and the step that empties the registry
\* issues the request.
C7_NoDoubleNoLostRestart ==
    /\ [](state = "PlanQueued" =>
            /\ Count > 0
            /\ queuedReloadPlan # NoPlan
            /\ CoordCallback \in Range(runCompletionCallbacks))
    /\ [][ /\ restartRequests' # restartRequests =>
                 /\ Len(restartRequests') = Len(restartRequests) + 1
                 /\ state' = "Applying"
                 /\ queuedReloadPlan' = NoPlan
           /\ (state = "PlanQueued" /\ Count' = 0) =>
                 restartRequests' = Append(restartRequests, queuedReloadPlan.reason) ]_vars

C7_Witness ==
    /\ Removed
    /\ lastOp.op = "clear"
    /\ Len(callLog) = 2
    /\ state = "Applying"
    /\ restartRequests = <<"r2">>
    /\ queuedReloadPlan = NoPlan
    /\ Count = 0

\* C8: count() is the number of distinct registered ids, never negative, and
\* moves by +1 exactly on registering a new non-empty id and by -1 exactly on
\* clearing or evicting a registered id; re-registration and clearing an
\* unregistered id leave it unchanged.
C8_CountConsistent ==
    /\ [](/\ Count = Cardinality(RegisteredIds)
          /\ Count >= 0
          /\ \A id \in AllIds : (id \in RegisteredIds) <=> (runStartTimes[id] # NoStart))
    /\ [][ Count' = Count
                  + (IF lastOp'.op = "register" /\ lastOp'.runId # EmptyId /\ ~lastOp'.existed
                     THEN 1 ELSE 0)
                  - (IF lastOp'.op \in {"clear", "evict"} /\ lastOp'.existed
                     THEN 1 ELSE 0) ]_vars

C8_Witness ==
    /\ lastOp.op = "register"
    /\ lastOp.existed
    /\ Count = 2

\* C9: clear of a registered id removes the record and then calls every
\* subscriber once, in order, each seeing the count already decremented and
\* the id absent; clear of an unregistered id changes nothing and calls nobody.
C9_ClearNotifiesAfterRemoval ==
    [][ lastOp'.op = "clear" =>
            IF lastOp'.existed
            THEN /\ lastOp'.runId \notin RegisteredIds'
                 /\ Count' = Count - 1
                 /\ Len(callLog') = Len(runCompletionCallbacks)
                 /\ \A i \in 1..Len(callLog') :
                       /\ callLog'[i].cb = runCompletionCallbacks[i]
                       /\ callLog'[i].count = Count - 1
                       /\ ~callLog'[i].present
            ELSE /\ callLog' = <<>>
                 /\ UNCHANGED <<registryVars, coordVars>> ]_vars

C9_Witness ==
    /\ lastOp.op = "clear"
    /\ lastOp.existed
    /\ Len(callLog) = 2
    /\ Count = 1

\* C10: a run is removed by a stale timer only when its own age has reached
\* the maximum run duration (the timer of a cleared registration does nothing
\* to a later registration of the same id).
C10_EvictOnlyWhenStale == lastOp.op = "evict" => lastOp.age >= MaxRunDuration

\* The age of a registered run, and its own stale timer.
Age(id) == runStartTimes[id]
HasOwnTimer(id) ==
    \E i \in 1..Len(timers) :
        timers[i].runId = id /\ timers[i].left = MaxRunDuration - Age(id)
NotifiedOnce(log, subscribers, count) ==
    /\ Len(log) = Len(subscribers)
    /\ \A i \in 1..Len(log) :
          log[i].cb = subscribers[i] /\ log[i].count = count /\ ~log[i].present

\* C11: a registered run never outlives the maximum run duration: while it is
\* registered its age is at most the maximum, it is eventually removed even
\* if nobody clears it (no id stays registered from some moment on), and the
\* removal by the stale timer is the removal clear makes: the count drops by
\* one and every subscriber is called once.
C11_StaleRunEvicted ==
    /\ [](\A id \in RunIds : MapHas(runContextById, id) => Age(id) \in 0..MaxRunDuration)
    /\ \A id \in RunIds : []<>(~MapHas(runContextById, id))
    /\ [][ lastOp'.op = "evict" =>
              /\ lastOp'.existed
              /\ lastOp'.runId \notin RegisteredIds'
              /\ Count' = Count - 1
              /\ NotifiedOnce(callLog', runCompletionCallbacks, Count - 1) ]_vars

C11_Witness ==
    /\ lastOp.op = "evict"
    /\ lastOp.age = MaxRunDuration
    /\ Len(callLog) = 2
    /\ Count = 1

\* C12: a restart queued behind a single leaked run is applied by the stale
\* eviction of that run: the eviction moves the Coordinator from PlanQueued
\* to Applying and calls the Bridge exactly once with the queued reason; the
\* run's age is then at most the maximum run duration, and unless another run
\* is registered the queued restart is eventually applied.
C12_EvictionAppliesQueuedRestart ==
    /\ [][ (lastOp'.op = "evict" /\ state = "PlanQueued" /\ Count = 1) =>
              /\ lastOp'.age \in 0..MaxRunDuration
              /\ state' = "Applying"
              /\ restartRequests' = Append(restartRequests, queuedReloadPlan.reason) ]_vars
    /\ (state = "PlanQueued" /\ Count = 1) ~> (state = "Applying" \/ Count >= 2)

C12_Witness ==
    /\ lastOp.op = "evict"
    /\ lastOp.age = MaxRunDuration
    /\ state = "Applying"
    /\ Len(restartRequests) = 1
    /\ queuedReloadPlan = NoPlan
    /\ timers = <<>>

\* C13: registering an id that is already registered starts no timer and
\* leaves the start time alone, and every registered run has a pending timer
\* that is due when its age reaches the maximum run duration, so it is removed
\* no later than that.
C13_BoundedLifetime ==
    /\ [](\A id \in RunIds : MapHas(runContextById, id) =>
              Age(id) \in 0..MaxRunDuration /\ HasOwnTimer(id))
    /\ [][ (lastOp'.op = "register" /\ lastOp'.existed) =>
              /\ timers' = timers
              /\ runStartTimes' = runStartTimes
              /\ RegisteredIds' = RegisteredIds ]_vars

C13_Witness ==
    /\ lastOp.op = "register"
    /\ lastOp.existed
    /\ Age(lastOp.runId) = MaxRunDuration
    /\ Len(timers) = 1

\* The stored context of a registered id.
ContextOf(m, id) == m[MapGet(m, id)].ctx
OtherEntries(m, id) == SelectSeq(m, LAMBDA e : e.runId # id)
ReRegistered == lastOp.op = "register" /\ lastOp.existed

\* C14 as claimed: re-registration overwrites every field present in the call
\* (present: not undefined), keeps the absent ones, and changes neither the
\* count nor the ids.
C14_MergePresentFields ==
    [][ ReRegistered' =>
          LET old == ContextOf(runContextById, lastOp'.runId)
              new == ContextOf(runContextById', lastOp'.runId)
              c   == lastOp'.ctx
          IN  /\ new.sessionKey = IF c.sessionKey # Undefined THEN c.sessionKey ELSE old.sessionKey
              /\ new.verboseLevel = IF c.verboseLevel # Undefined THEN c.verboseLevel
                                    ELSE old.verboseLevel
              /\ new.isHeartbeat = IF c.isHeartbeat # Undefined THEN c.isHeartbeat
                                   ELSE old.isHeartbeat
              /\ getActiveAgentRunIds' = getActiveAgentRunIds
              /\ Count' = Count ]_vars

\* C14 amended: re-registration overwrites the session key when the call's is
\* a non-empty string, the verbosity level when the call has one, the
\* heartbeat flag when the call's is not undefined; every other field, every
\* other run, the ids, their order and the count stay as they were.
C14_MergeNonEmptyFields ==
    [][ ReRegistered' =>
          LET old == ContextOf(runContextById, lastOp'.runId)
              new == ContextOf(runContextById', lastOp'.runId)
              c   == lastOp'.ctx
          IN  /\ new.sessionKey = IF c.sessionKey \notin {Undefined, ""} THEN c.sessionKey
                                  ELSE old.sessionKey
              /\ new.verboseLevel = IF c.verboseLevel # Undefined THEN c.verboseLevel
                                    ELSE old.verboseLevel
              /\ new.isHeartbeat = IF c.isHeartbeat # Undefined THEN c.isHeartbeat
                                   ELSE old.isHeartbeat
              /\ OtherEntries(runContextById', lastOp'.runId)
                     = OtherEntries(runContextById, lastOp'.runId)
              /\ getActiveAgentRunIds' = getActiveAgentRunIds
              /\ Count' = Count ]_vars

C14_Witness ==
    /\ ReRegistered
    /\ lastOp.ctx = [sessionKey |-> "s2", verboseLevel |-> Undefined, isHeartbeat |-> "true"]
    /\ ContextOf(runContextById, lastOp.runId)
           = [sessionKey |-> "s2", verboseLevel |-> "off", isHeartbeat |-> "true"]
    /\ Count = 2

\* C15: register with an empty id fails with the error InvalidArgument (and
\* leaves the registry unchanged).
C15_EmptyIdFails ==
    (lastOp.op = "register" /\ lastOp.runId = EmptyId) => lastOp.result = "InvalidArgument"

Evaluated(kinds) == lastOp.op = "evaluate" /\ lastOp.kind \in kinds

\* C16: a hot-apply or no-op plan evaluated in PlanQueued leaves the state
\* PlanQueued and the queued plan and its snapshot as they were and requests
\* no restart; the queue is written only by evaluate of a restart-required
\* plan and emptied only at the transition to Applying; the plan applied when
\* the count reaches zero is the queued one.
C16_QueueSurvivesHotApply ==
    /\ [][ (Evaluated({"hot-apply", "no-op"})' /\ state = "PlanQueued") =>
              /\ state' = "PlanQueued"
              /\ UNCHANGED <<queuedReloadPlan, queuedReloadConfig, restartRequests>>
              /\ \A i \in 1..Len(callLog') : callLog'[i].cb = "hotApply" ]_vars
    /\ [][ <<queuedReloadPlan, queuedReloadConfig>>' # <<queuedReloadPlan, queuedReloadConfig>> =>
              \/ /\ RestartEvaluated'
                 /\ queuedReloadPlan' = [kind |-> "restart-required", reason |-> lastOp'.reason]
              \/ /\ queuedReloadPlan' = NoPlan
                 /\ queuedReloadConfig' = NoConfig
                 /\ state' = "Applying"
                 /\ restartRequests' = Append(restartRequests, queuedReloadPlan.reason) ]_vars

C16_Witness ==
    /\ Evaluated({"hot-apply"})
    /\ state = "PlanQueued"
    /\ queuedReloadPlan = [kind |-> "restart-required", reason |-> "r2"]
    /\ queuedReloadConfig = ConfigOf("r2")
    /\ callLog = <<[cb |-> "hotApply", count |-> 1, present |-> FALSE]>>
    /\ restartRequests = <<>>

\* C17: evaluate of a no-op or rejected plan, in any state, changes neither
\* the state nor the queued plan, requests no restart and invokes no callback.
C17_NoOpRejectedDiscarded ==
    [][ Evaluated({"no-op", "rejected"})' =>
            /\ UNCHANGED coordVars
            /\ callLog' = <<>> ]_vars

C17_Witness ==
    /\ Evaluated({"rejected"})
    /\ state = "PlanQueued"
    /\ queuedReloadPlan.reason = "r1"
    /\ Count = 2
    /\ callLog = <<>>

\* C19: a queued plan is applied only by a step at which the count goes from
\* above zero to zero while the plan is queued, and never while a run is
\* registered: a plan is queued only while runs are registered, and every
\* restart request leaves the count at zero.
C19_ZeroAfterQueueing ==
    /\ [](queuedReloadPlan # NoPlan => Count > 0)
    /\ [][ restartRequests' # restartRequests => Count' = 0 ]_vars
    /\ [][ (queuedReloadPlan # NoPlan /\ restartRequests' # restartRequests) =>
              /\ Removed'
              /\ Count = 1
              /\ Count' = 0
              /\ restartRequests' = Append(restartRequests, queuedReloadPlan.reason) ]_vars

\* Run "a" was cleared once before the plan was queued (its first timer is
\* still pending) and again after it.
C19_Witness ==
    /\ lastOp.op = "clear"
    /\ lastOp.runId = "a"
    /\ lastOp.existed
    /\ timers = <<[runId |-> "a", left |-> 1], [runId |-> "a", left |-> 2]>>
    /\ restartRequests = <<"r1">>
    /\ state = "Applying"
    /\ Len(callLog) = 1

\* C20: Applying is terminal: no step leaves Applying or requests a restart
\* from it, so the Bridge receives at most one restart request.
C20_ApplyingTerminal ==
    /\ [][ state = "Applying" => (state' = "Applying" /\ restartRequests' = restartRequests) ]_vars
    /\ [](Len(restartRequests) <= 1)

Reloaded == lastOp.op = "reload"

\* C18: a new snapshot that fails schema validation is classified rejected,
\* whatever fields differ; it changes neither the Coordinator state nor the
\* queue, requests no restart, invokes no callback, and leaves the previous
\* snapshot authoritative: the authoritative snapshot is always a valid one
\* and every plan is computed against it.
C18_InvalidSnapshotRejected ==
    /\ [](SchemaValid(currentSnapshot.content))
    /\ [][ (Reloaded' /\ ~SchemaValid(lastOp'.next.content)) =>
              /\ lastOp'.kind = "rejected"
              /\ UNCHANGED coordVars
              /\ callLog' = <<>>
              /\ currentSnapshot' = currentSnapshot ]_vars
    /\ [][ Reloaded' => lastOp'.kind = plan(currentSnapshot, lastOp'.next).kind ]_vars

C18_Witness ==
    /\ Reloaded
    /\ lastOp.kind = "rejected"
    /\ lastOp.next.content = [gateway |-> "bad", hooks |-> "h2"]
    /\ currentSnapshot.content = [gateway |-> "g2", hooks |-> "h1"]
    /\ state = "PlanQueued"
    /\ queuedReloadPlan.reason = "r2"
    /\ Count = 1

\* C21: a Bridge invocation that fails is logged once as SupervisorUnreachable,
\* delivers no restart request and leaves the Coordinator in Applying; from
\* Applying no run completion and no return of the channel invokes the Bridge
\* again or changes the state: only a new restart-required plan does.
C21_BridgeFailureNotRetried ==
    /\ [][ bridgeFailures' # bridgeFailures =>
              /\ ~bridgeReachable
              /\ bridgeFailures' = Append(bridgeFailures, "SupervisorUnreachable")
              /\ restartRequests' = restartRequests
              /\ state' = "Applying" ]_vars
    /\ [][ (~bridgeReachable /\ state' = "Applying" /\ state # "Applying") =>
              Len(bridgeFailures') = Len(bridgeFailures) + 1 ]_vars
    /\ [][ (state = "Applying" /\ ~RestartEvaluated') =>
              /\ state' = "Applying"
              /\ BridgeInvocations' = BridgeInvocations ]_vars

C21_Witness ==
    /\ state = "Applying"
    /\ bridgeFailures = <<"SupervisorUnreachable">>
    /\ restartRequests = <<>>
    /\ bridgeReachable
    /\ Removed
    /\ Count = 0

\* C22: evaluate of a hot-apply plan in Idle invokes the hot-apply callback
\* exactly once, leaves the Coordinator in Idle with nothing queued and
\* requests no restart, however many runs are registered.
C22_HotApplyInIdle ==
    [][ (Evaluated({"hot-apply"})' /\ state = "Idle") =>
            /\ callLog' = <<[cb |-> "hotApply", count |-> Count, present |-> FALSE]>>
            /\ state' = "Idle"
            /\ UNCHANGED coordVars ]_vars

C22_Witness ==
    /\ Evaluated({"hot-apply"})
    /\ state = "Idle"
    /\ Count = 2
    /\ callLog = <<[cb |-> "hotApply", count |-> 2, present |-> FALSE]>>
    /\ restartRequests = <<>>

Planned == lastOp.op = "plan"

RawStep == lastOp'.op = "raw" /\ detector' # detector
QuiesceStep == lastOp'.op \in {"settle", "readFailed"} /\ detector' # detector
AtomicWrite == <<"add(tmp)", "unlink(orig)", "add(orig)">>

\* C23: a burst of raw events yields at most one settle event, and exactly one
\* once its countdown has completed unless the read failed; the snapshot of
\* the settle event is the content the resource has after the last raw event
\* of the burst, with its checksum.
C23_OneSettlePerBurst ==
    /\ [](detector.settles <= 1)
    /\ [](detector.timer = NoTimer /\ detector.burst # <<>> =>
              \/ detector.settles = 1 /\ lastOp.op = "settle"
              \/ detector.settles = 0 /\ lastOp.op = "readFailed")
    /\ [][ QuiesceStep /\ lastOp'.op = "settle" =>
              /\ detector.settles = 0
              /\ detector'.burst = detector.burst
              /\ resource.orig # Missing
              /\ lastOp'.next.content = resource.orig
              /\ lastOp'.next.checksum = Checksum(resource.orig) ]_vars

C23_Witness ==
    /\ lastOp.op = "settle"
    /\ detector.burst = AtomicWrite
    /\ detector.settles = 1
    /\ lastOp.next.content = [gateway |-> "g2", hooks |-> "h1"]
    /\ resource = [orig |-> [gateway |-> "g2", hooks |-> "h1"], tmp |-> Missing]

\* C24: every raw event restarts the countdown at the full quiescence window,
\* the countdown that is pending always ends one window after the most recent
\* raw event, and the Detector reads the resource and settles only when a
\* full window has passed since the most recent raw event.
C24_SettleAfterQuiescence ==
    /\ [](detector.timer # NoTimer => detector.timer = Quiescence - detector.sinceRaw)
    /\ [][ RawStep => detector'.timer = Quiescence /\ detector'.sinceRaw = 0 ]_vars
    /\ [][ QuiesceStep => detector.sinceRaw >= Quiescence ]_vars

C24_Witness ==
    /\ lastOp.op = "settle"
    /\ Len(detector.burst) = 2
    /\ detector.sinceRaw = Quiescence
    /\ detector.timer = NoTimer

\* C25: the read after quiescence makes at most MaxReadAttempts attempts; when
\* an attempt within the budget succeeds the settle event carries a snapshot,
\* and when all fail TransientReadFailure is surfaced with no snapshot and no
\* settle event; after a failure a raw event still restarts the countdown.
C25_BoundedReadRetries ==
    /\ [][ QuiesceStep =>
              /\ detector'.attempts <= MaxReadAttempts
              /\ detector'.failing < MaxReadAttempts =>
                    /\ lastOp'.op = "settle"
                    /\ detector'.attempts = detector'.failing + 1
                    /\ lastOp'.next \in Snapshots
                    /\ detector'.surfaced = detector.surfaced
              /\ detector'.failing >= MaxReadAttempts =>
                    /\ lastOp'.op = "readFailed"
                    /\ lastOp'.result = "TransientReadFailure"
                    /\ detector'.attempts = MaxReadAttempts
                    /\ lastOp'.next = NoSnapshot
                    /\ detector'.settles = detector.settles
                    /\ "TransientReadFailure" \in detector'.surfaced ]_vars
    /\ [][ RawStep /\ detector.surfaced # {} => detector'.timer = Quiescence ]_vars

C25_Witness ==
    /\ lastOp.op = "settle"
    /\ detector.surfaced = {"TransientReadFailure"}
    /\ detector.failing = MaxReadAttempts - 1
    /\ detector.attempts = MaxReadAttempts
    /\ detector.settles = 1

\* C26: plan(previous, next) is no-op whenever the checksums of the two
\* snapshots are equal, whatever their modification times are.
C26_EqualChecksumNoOp ==
    (Planned /\ lastOp.previous.checksum = lastOp.next.checksum) => lastOp.kind = "no-op"

C26_Witness ==
    /\ Planned
    /\ lastOp.previous.checksum = lastOp.next.checksum
    /\ lastOp.previous.mtime # lastOp.next.mtime
    /\ lastOp.kind = "no-op"

\* C27: for valid snapshots with different checksums, plan(previous, next) is
\* restart-required exactly if some field path whose value differs is marked
\* restart-required in the policy table, and hot-apply exactly if every field
\* path whose value differs is marked hot-appliable.
C27_ClassifiedByPolicy ==
    (/\ Planned
     /\ SchemaValid(lastOp.previous.content)
     /\ SchemaValid(lastOp.next.content)
     /\ lastOp.previous.checksum # lastOp.next.checksum) =>
        LET changed == { p \in FieldPaths :
                           lastOp.previous.content[p] # lastOp.next.content[p] }
        IN  /\ lastOp.kind = "restart-required" <=>
                   \E p \in changed : PolicyTable[p] = "restart-required"
            /\ lastOp.kind = "hot-apply" <=>
                   \A p \in changed : PolicyTable[p] = "hot-apply"

C27_Witness ==
    /\ Planned
    /\ lastOp.previous.content = [gateway |-> "g1", hooks |-> "h2"]
    /\ lastOp.next.content = [gateway |-> "g2", hooks |-> "h1"]
    /\ lastOp.kind = "restart-required"
    /\ lastOp.reason = "r2"

\* C29: listIds() holds exactly the registered ids, each once, oldest current
\* registration first: its length is count(), registering a new id appends
\* it, re-registering a registered id changes nothing, a removal takes the id
\* out and keeps the order of the others, so an id cleared and registered
\* again comes after the ids that stayed registered.
C29_ListIdsInRegistrationOrder ==
    /\ [](/\ Len(getActiveAgentRunIds) = Count
          /\ \A id \in AllIds :
                Cardinality({ i \in 1..Count : getActiveAgentRunIds[i] = id })
                    = IF runStartTimes[id] # NoStart THEN 1 ELSE 0
          /\ \A i, j \in 1..Count :
                i < j => Age(getActiveAgentRunIds[i]) >= Age(getActiveAgentRunIds[j]))
    /\ [][ lastOp'.op = "register" =>
              getActiveAgentRunIds' =
                  IF lastOp'.existed \/ lastOp'.runId = EmptyId THEN getActiveAgentRunIds
                  ELSE Append(getActiveAgentRunIds, lastOp'.runId) ]_vars
    /\ [][ lastOp'.op \in {"clear", "evict"} =>
              getActiveAgentRunIds' =
                  SelectSeq(getActiveAgentRunIds, LAMBDA id : id # lastOp'.runId) ]_vars

C29_Witness ==
    /\ getActiveAgentRunIds = <<"b", "a">>
    /\ lastOp.op = "register"
    /\ lastOp.runId = "a"
    /\ ~lastOp.existed
    /\ Age("b") = 1
    /\ Age("a") = 0
    /\ timers = <<[runId |-> "b", left |-> 1], [runId |-> "a", left |-> MaxRunDuration]>>

\* C28: once the handle returned by onCompletion(callback) has been called,
\* the callback is no subscriber any more, and no later clear or stale
\* eviction invokes it, while every remaining subscriber is invoked once.
C28_UnsubscribedNotNotified ==
    /\ [](unsubscribed \cap Range(runCompletionCallbacks) = {})
    /\ [][ Removed' =>
              /\ \A i \in 1..Len(callLog') : callLog'[i].cb \notin unsubscribed
              /\ \A cb \in Range(runCompletionCallbacks) :
                    Cardinality({ i \in 1..Len(callLog') : callLog'[i].cb = cb }) = 1 ]_vars

C28_Witness ==
    /\ lastOp.op = "evict"
    /\ lastOp.existed
    /\ unsubscribed = {"cb1"}
    /\ Len(callLog) = 1
    /\ callLog[1].cb = CoordCallback
    /\ Count = 1

\* The seq numbers of the events emitted for a run id, in emission order.
SeqsOf(id) ==
    LET evts == SelectSeq(emitted, LAMBDA e : e.runId = id)
    IN  [k \in 1..Len(evts) |-> evts[k].seq]

\* C30: the seq numbers of the events emitted for one runId are 1, 2, 3, ...
\* in emission order, whatever events of other runIds come in between, and
\* the event handed to the listeners carries the number.
C30_SeqPerRunId ==
    /\ [](\A id \in RunIds : SeqsOf(id) = [k \in 1..Len(SeqsOf(id)) |-> k])
    /\ [][ lastOp'.op = "emit" =>
              /\ lastOp'.event.seq = Len(SeqsOf(lastOp'.runId)) + 1
              /\ \A id \in RunIds \ {lastOp'.runId} : SeqsOf(id)' = SeqsOf(id) ]_vars

C30_Witness ==
    /\ lastOp.op = "emit"
    /\ emitted = <<[runId |-> "a", seq |-> 1], [runId |-> "a", seq |-> 2],
                   [runId |-> "b", seq |-> 1], [runId |-> "a", seq |-> 3]>>
    /\ lastOp.event = [runId |-> "a", seq |-> 3, sessionKey |-> "s2"]
    /\ Len(callLog) = 1

\* The place of a received event in the order of the emitAgentEvent calls.
EmitIndex(e) == CHOOSE k \in 1..Len(emitted) : emitted[k] = [runId |-> e.runId, seq |-> e.seq]
InEmitOrder(evts) ==
    \A i \in 1..Len(evts), j \in 1..Len(evts) : i < j => EmitIndex(evts[i]) < EmitIndex(evts[j])
ToolEvents(evts) == SelectSeq(evts, LAMBDA e : e.stream = "tool")
ListenerIndex(l) == CHOOSE k \in 1..Len(listeners) : listeners[k] = l
EmitStep == lastOp'.op = "emit" /\ emitted' # emitted

\* C31 as stated: every listener is called with the events in the order of
\* the emitAgentEvent calls.
C31_ReceivedInEmitOrder ==
    \A l \in BusListeners : InEmitOrder(received[l])

\* C31, amended: the events emitted outside a listener call reach every
\* listener in the order of the emitAgentEvent calls; each emit calls every
\* subscribed listener once with its event, and the event a listener emits
\* from inside its call reaches the listeners subscribed after it before the
\* event being handled, and the others after it; a listener that is not
\* subscribed is not called.
C31_ReceivedInDispatchOrder ==
    /\ [](\A l \in BusListeners : InEmitOrder(ToolEvents(received[l])))
    /\ [][ EmitStep =>
              LET evt == [runId |-> lastOp'.runId, seq |-> seqByRun[lastOp'.runId] + 1,
                          stream |-> "tool"]
                  der == [evt EXCEPT !.seq = evt.seq + 1, !.stream = "derived"]
              IN  \A l \in Range(listeners) :
                      received'[l] = received[l] \o
                          (IF Relay \notin Range(listeners) THEN <<evt>>
                           ELSE IF ListenerIndex(l) <= ListenerIndex(Relay)
                           THEN <<evt, der>> ELSE <<der, evt>>) ]_vars
    /\ [][ \A l \in BusListeners \ Range(listeners) : received'[l] = received[l] ]_vars

C31_Witness ==
    /\ lastOp.op = "emit"
    /\ listeners = <<Relay>>
    /\ received["l1"] = <<[runId |-> "a", seq |-> 2, stream |-> "derived"],
                          [runId |-> "a", seq |-> 1, stream |-> "tool"]>>
    /\ Len(received[Relay]) = 4

\* C32: a health check that force-restarts the gateway has queried the active
\* agent runs first, and no run is active when it does.
C32_QueriesBeforeKill ==
    [][ \A c \in 1..MaxChecks :
            (monitor.checks[c].pc # "killall" /\ monitor'.checks[c].pc = "killall") =>
                monitor'.checks[c].queried /\ Count = 0 ]_vars

\* The ids with a line of the given kind in the inspected window.
WindowIds(kind) ==
    { LastLines(gatewayLog)[i].id :
        i \in { j \in 1..Len(LastLines(gatewayLog)) : LastLines(gatewayLog)[j].kind = kind } }

\* C36: the number checkActiveAgentRuns returns is the number of ids that
\* have a registered line and no cleared line in the inspected window.
C36_CountsUnclearedRuns ==
    (lastOp.op = "wsProbe" /\ lastOp.result = "queried") =>
        monitor.checks[monitor.lastCheck].activeRuns =
            Cardinality(WindowIds("registered") \ WindowIds("cleared"))

\* C33, for requests that carry no option: a write that is made has not the
\* checksum of the last written config and comes no earlier than the minimum
\* interval after the previous write; and the most recently requested config
\* wins: a request outside the interval, and the pending write when its timer
\* fires, leave the file with the config they were given.
C33_WritesCheckedAndSpaced ==
    /\ [][ (lastOp'.op = "writeConfig" /\ lastOp'.opts = NoOpts /\ lastOp'.result = "written") =>
              /\ calculateConfigChecksum(configIo'.file) # configIo.lastConfigChecksum
              /\ configIo.sinceWrite >= WriteRateLimit ]_vars
    /\ [][ (lastOp'.op = "writeConfig" /\ lastOp'.opts = NoOpts
              /\ configIo.sinceWrite >= WriteRateLimit) =>
              configIo'.file = configIo'.requested ]_vars
    /\ [][ (lastOp'.op = "pendingWrite" /\ ~lastOp'.opts.forceWrite) =>
              /\ configIo.sinceWrite >= WriteRateLimit
              /\ configIo'.file = configIo.pendingWrite.config ]_vars

\* C34: no count the load test observes after a register or a clear exceeds
\* the number of runs it keeps active at once, and the count is zero when it
\* has cleared the remaining runs.
C34_CountWithinMaxConcurrent ==
    /\ \A k \in 1..Len(load.activeCounts) : load.activeCounts[k] <= MaxConcurrent
    /\ load.pc = "done" => Count = 0

\* C35: a restart-required evaluation made while runs are registered leaves
\* count() and listIds() as they were, queues the plan and invokes the Bridge
\* for no restart (which would end the runs); while the plan is queued, each
\* clear of a registered run lowers count() by exactly one and removes only
\* that id.
C35_DeferralLeavesRegistry ==
    /\ [][ lastOp'.op = "evaluate" /\ lastOp'.kind = "restart-required" /\ Count > 0 =>
              /\ Count' = Count
              /\ getActiveAgentRunIds' = getActiveAgentRunIds
              /\ runContextById' = runContextById
              /\ BridgeInvocations' = BridgeInvocations
              /\ queuedReloadPlan' # NoPlan ]_vars
    /\ [][ queuedReloadPlan # NoPlan /\ lastOp'.op = "clear" /\ lastOp'.existed =>
              /\ Count' = Count - 1
              /\ RegisteredIds' = RegisteredIds \ {lastOp'.runId} ]_vars

C35_Witness ==
    /\ lastOp.op = "clear"
    /\ lastOp.existed
    /\ lastOp.runId = "a"
    /\ state = "PlanQueued"
    /\ queuedReloadPlan # NoPlan
    /\ getActiveAgentRunIds = <<"b">>
    /\ restartRequests = <<>>

\* The calls of a completion subscriber in the last operation.
CallsOf(cb) == Len(SelectSeq(callLog, LAMBDA c : c.cb = cb))

\* C37: in every step of register, clear or a timer firing, each completion
\* subscriber is called as many times as runs were removed by the step, which
\* is once for a clear or an eviction of a registered id and never for a
\* second clear or for the timer of an id that is no longer registered; so
\* over any sequence the calls of a subscriber that stays subscribed equal
\* the removals.
C37_OneNotificationPerRemoval ==
    [][ lastOp'.op \in {"register", "clear", "evict", "timer"} =>
            /\ lastOp'.op # "register" => Count - Count' \in {0, 1}
            /\ \A i \in 1..Len(runCompletionCallbacks) :
                   CallsOf(runCompletionCallbacks[i])' =
                       IF Count' < Count THEN Count - Count' ELSE 0
            /\ Count' < Count <=> lastOp'.op \in {"clear", "evict"} /\ lastOp'.existed
            /\ lastOp'.op = "timer" => ~MapHas(runContextById, lastOp'.runId) ]_vars

C37_Witness ==
    /\ lastOp.op = "timer"
    /\ lastOp.runId = "a"
    /\ ~lastOp.existed
    /\ callLog = <<>>
    /\ Len(runCompletionCallbacks) = 2
    /\ getActiveAgentRunIds = <<"b">>

Names(calls) == [k \in 1..Len(calls) |-> calls[k].cb]

\* C38: when a clear removes a run, or an event is emitted, while a
\* subscriber or listener that throws is subscribed, every subscriber or
\* listener is called once in subscription order, those after the throwing
\* one included, the call returns to its caller, and the registry and the
\* seq counter change as they do without it.
C38_ThrowingCallbackIsolated ==
    /\ [][ lastOp'.op = "clear" /\ lastOp'.existed =>
              /\ Names(callLog') = runCompletionCallbacks
              /\ lastOp'.result = "returned"
              /\ runContextById' = MapDelete(runContextById, lastOp'.runId)
              /\ runStartTimes'[lastOp'.runId] = NoStart ]_vars
    /\ [][ lastOp'.op = "emit" =>
              /\ Names(callLog') = listeners
              /\ lastOp'.result = "returned"
              /\ seqByRun'[lastOp'.runId] = seqByRun[lastOp'.runId] + 1
              /\ UNCHANGED runContextById ]_vars

C38_Witness ==
    /\ lastOp.op = "clear"
    /\ lastOp.existed
    /\ lastOp.result = "returned"
    /\ runCompletionCallbacks = <<CoordCallback, Thrower, "cb1">>
    /\ Names(callLog) = <<CoordCallback, Thrower, "cb1">>
    /\ listeners = <<Thrower, "l1">>
    /\ emitted # <<>>

\* C39: the seq of a run's events is counted apart from the registry: the
\* events emitted for one runId have strictly increasing seq, so no
\* (runId, seq) pair is emitted twice; a register, a clear, a stale eviction
\* and a timer that finds nothing leave every counter as it is; and an emit
\* adds one to the counter of its runId and leaves the registered ids, their
\* contexts and the count as they are.
C39_SeqIndependentOfRegistry ==
    /\ [](\A i, j \in 1..Len(emitted) :
             (i < j /\ emitted[i].runId = emitted[j].runId) =>
                 emitted[i].seq < emitted[j].seq)
    /\ [][ lastOp'.op \in {"register", "clear", "evict", "timer", "tick"} =>
              UNCHANGED seqByRun ]_vars
    /\ [][ lastOp'.op = "emit" =>
              /\ seqByRun'[lastOp'.runId] = seqByRun[lastOp'.runId] + 1
              /\ \A id \in RunIds \ {lastOp'.runId} : seqByRun'[id] = seqByRun[id]
              /\ UNCHANGED runContextById
              /\ getActiveAgentRunCount' = getActiveAgentRunCount
              /\ getActiveAgentRunIds' = getActiveAgentRunIds ]_vars

\* An event with seq 3 for a run that was registered, removed and registered
\* again (two of its timers are pending), after an event for a run that has
\* never been registered.
C39_Witness ==
    /\ lastOp.op = "emit"
    /\ lastOp.runId = "a"
    /\ lastOp.event.seq = 3
    /\ MapHas(runContextById, "a")
    /\ Len(timers) = 2
    /\ \A i \in 1..Len(timers) : timers[i].runId = "a"
    /\ emitted[1].runId = "b"

\* The read-only status query of the Coordinator (specification 6).
status ==
    [activeRunCount |-> getActiveAgentRunCount,
     activeRunIds |-> getActiveAgentRunIds,
     queuedPlanPresent |-> queuedReloadPlan # NoPlan,
     state |-> state]

\* C40: in every reachable state a plan is queued exactly when the state is
\* PlanQueued, a queued plan comes with the snapshot it targets, and the
\* status query reports a count that is the number of the ids it reports,
\* with no id twice.
C40_QueuedIffPlanQueued ==
    /\ status.queuedPlanPresent <=> status.state = "PlanQueued"
    /\ (queuedReloadPlan # NoPlan) <=> (queuedReloadConfig # NoConfig)
    /\ status.activeRunCount = Len(status.activeRunIds)
    /\ Cardinality(Range(status.activeRunIds)) = status.activeRunCount

\* The clear of the last run has applied the queued restart: the state is
\* Applying, the Bridge has the request, and the queue is empty.
C40_Witness ==
    /\ lastOp.op = "clear"
    /\ lastOp.existed
    /\ status.state = "Applying"
    /\ ~status.queuedPlanPresent
    /\ status.activeRunCount = 0
    /\ Len(restartRequests) = 1
    /\ Names(callLog) = runCompletionCallbacks

====
